---- MODULE Spec2Model ----
(***************************************************************************)
(* The weekly lineup transaction of the fantasy-football platform          *)
(* (functions/src/lineupProcessing.ts): saveWeeklyLineup with its input    *)
(* validation, its deadline check against the stored schedule, and its     *)
(* Firestore transaction over the lineup row and the usage counters;       *)
(* calculateWeeklyScores, which writes the total of every lineup of a week *)
(* from the stored game statistics; and the stats sync                     *)
(* (functions/src/statsSync.ts, pointsCalculator.ts, statsAggregators.ts)  *)
(* that computes and stores those statistics.                              *)
(***************************************************************************)
EXTENDS Integers, Sequences, FiniteSets, TLC

VARIABLES
    clock,          \* Date.now() / 1000, floored: the current epoch second
    nfl_schedules,  \* collection nfl_schedules: doc id -> FirestoreWeeklySchedule
    scheduleWrite,  \* storeWeeklyGamesInFirestore waiting for its weekDocRef.set
    weeklyLineups,  \* users/{uid}/weeklyLineups: <<uid, doc id>> -> FirestoreWeeklyLineup
    usageCounts,    \* users/{uid}/leagueUsage/{league_season}/usageCounts: path -> doc
    calls,          \* the running saveWeeklyLineup invocations, one per call slot
    gamestats,      \* {players,teams}/{id}/gamestats: <<collection, id, gameId>> -> doc
    boxScore,       \* the stats sync of a week and the box score it is working on
    run,            \* the calculateWeeklyScores invocation
    leagues,        \* collection leagues: doc id -> league document
    leagueCalls     \* the running league function invocations, one per call slot

vars == <<clock, nfl_schedules, scheduleWrite, weeklyLineups, usageCounts, calls, gamestats, boxScore, run,
          leagues, leagueCalls>>

\* The state of the scoring pipeline, which saveWeeklyLineup never touches.
scoringVars == <<gamestats, boxScore, run>>

\* The state of the league functions, which nothing else touches.
leagueVars == <<leagues, leagueCalls>>

----------------------------------------------------------------------------
(* Bounds of the model.                                                    *)

\* Number of saveWeeklyLineup invocations that can be in flight at once.
NumCalls == 2
\* The clock runs from 0 to MaxClock.
MaxClock == 2
\* Number of league function invocations that can be in flight at once.
NumLeagueCalls == 2

----------------------------------------------------------------------------
(* JavaScript values, as far as typeof tells them apart.                   *)

Str(s) == [t |-> "string", s |-> s]
Num(n) == [t |-> "number", n |-> n]
Undefined == [t |-> "undefined"]
Null == [t |-> "null"]
Bool(b) == [t |-> "boolean", b |-> b]

\* A string as the sequence of its characters, for the parsers.
Chars(cs) == [t |-> "string", chars |-> cs]

\* A JavaScript object by its own properties. The objects whose properties
\* the code enumerates (for-in, Object.keys, Object.entries) also carry the
\* order of the enumeration in keys: the order in which the properties were
\* created, after the integer-like names in ascending order.
Obj(o) == [t |-> "object", o |-> o]
OrderedObj(keys, o) == [t |-> "object", keys |-> keys, o |-> o]

\* A Firestore Timestamp of the given epoch second.
Timestamp(seconds) == [t |-> "timestamp", seconds |-> seconds]

typeof(v) == IF v.t \in {"null", "timestamp"} THEN "object" ELSE v.t

\* !v: undefined, null, the empty string, 0 and false.
Falsy(v) ==
    v \in {Undefined, Null, [t |-> "string", s |-> ""], [t |-> "string", chars |-> <<>>],
           [t |-> "number", n |-> 0], [t |-> "number", milli |-> 0],
           [t |-> "boolean", b |-> FALSE]}

\* if (v): every other value, a map or an object included.
Truthy(v) == ~Falsy(v)

----------------------------------------------------------------------------
(* Program constants.                                                      *)

currentSeason == 2024
MAX_NFL_WEEKS == 18
MAX_USAGE_COUNT == 5
\* Number.MAX_SAFE_INTEGER is 2^53 - 1, beyond the integers of the model
\* checker; 2^31 - 1 stands for it: larger than every epoch and clock value here.
MAX_SAFE_INTEGER == 2147483647
\* Object.keys(lineupPicksWithTimestamp).length === 8
CompleteLineupSize == 8

validPositions ==
    <<"QB", "RB", "WR", "TE", "PassingOffense", "RushingOffense", "Defense", "SpecialTeams">>

Range(seq) == {seq[i] : i \in DOMAIN seq}

----------------------------------------------------------------------------
(* JavaScript numbers: IEEE 754 doubles, computed exactly. A double is its  *)
(* sign, its significand of 53 bits and the exponent of the last bit of    *)
(* the significand: the value is sig * 2^exp. The significand is written   *)
(* with three digits of 20 bits, most significant first.                   *)

Limb == 2^20

\* The three digits of h * Limb^2 + m * Limb + l.
Carry(h, m, l) ==
    <<h + ((m + (l \div Limb)) \div Limb), (m + (l \div Limb)) % Limb, l % Limb>>

BigPlus(a, b) == Carry(a[1] + b[1], a[2] + b[2], a[3] + b[3])
\* a - b, for a >= b.
BigMinus(a, b) == Carry(a[1] - b[1], a[2] - b[2], a[3] - b[3])
\* a * c, for c up to 2^10.
BigTimes(a, c) == Carry(a[1] * c, a[2] * c, a[3] * c)
\* The quotient and the remainder of a by c, for c up to 2^10.
BigDivide(a, c) ==
    [q |-> <<a[1] \div c,
             ((a[1] % c) * Limb + a[2]) \div c,
             ((((a[1] % c) * Limb + a[2]) % c) * Limb + a[3]) \div c>>,
     r |-> ((((a[1] % c) * Limb + a[2]) % c) * Limb + a[3]) % c]
BigLess(a, b) ==
    IF a[1] # b[1] THEN a[1] < b[1]
    ELSE IF a[2] # b[2] THEN a[2] < b[2]
    ELSE a[3] < b[3]

\* The number of bits of a digit, and of a.
RECURSIVE DigitLength(_)
DigitLength(d) ==
    IF d >= 2^8 THEN 8 + DigitLength(d \div 2^8)
    ELSE IF d >= 2^4 THEN 4 + DigitLength(d \div 2^4)
    ELSE IF d >= 2 THEN 1 + DigitLength(d \div 2)
    ELSE d
BitLength(a) ==
    IF a[1] > 0 THEN 40 + DigitLength(a[1])
    ELSE IF a[2] > 0 THEN 20 + DigitLength(a[2])
    ELSE DigitLength(a[3])

\* a * 2^n
RECURSIVE ShiftLeft(_, _)
ShiftLeft(a, n) ==
    IF n > 10 THEN ShiftLeft(BigTimes(a, 2^10), n - 10) ELSE BigTimes(a, 2^n)

\* floor(a / 2^n), and sticky: some bit was shifted out, here or before.
RECURSIVE ShiftRight(_, _, _)
Shifted(d, n, sticky) ==
    IF n = 0 THEN [q |-> d.q, sticky |-> sticky \/ d.r # 0]
    ELSE ShiftRight(d.q, n, sticky \/ d.r # 0)
ShiftRight(a, n, sticky) ==
    IF n > 10 THEN Shifted(BigDivide(a, 2^10), n - 10, sticky)
    ELSE Shifted(BigDivide(a, 2^n), 0, sticky)

DoubleZero == [neg |-> FALSE, sig |-> <<0, 0, 0>>, exp |-> 0]

\* The significand that rounding up has brought to 2^53 becomes 2^52.
Renormalized(neg, sig, exp) ==
    IF sig = <<2^13, 0, 0>> THEN [neg |-> neg, sig |-> <<2^12, 0, 0>>, exp |-> exp + 1]
    ELSE [neg |-> neg, sig |-> sig, exp |-> exp]

\* Round to nearest, ties to even: half is the quotient of the bits down to
\* the first one that is cut, by 2.
RoundedHalfEven(neg, half, sticky, exp) ==
    Renormalized(neg,
                 IF half.r = 1 /\ (sticky \/ half.q[3] % 2 = 1)
                 THEN BigPlus(half.q, <<0, 0, 1>>) ELSE half.q,
                 exp)

CutBits(neg, v, exp) == RoundedHalfEven(neg, BigDivide(v.q, 2), v.sticky, exp)

\* The double of n * 2^exp, of which drop bits are cut.
Normalized(neg, n, exp, sticky, drop) ==
    IF n = <<0, 0, 0>> THEN DoubleZero
    ELSE IF drop <= 0
    THEN [neg |-> neg, sig |-> ShiftLeft(n, 0 - drop), exp |-> exp + drop]
    ELSE CutBits(neg, ShiftRight(n, drop - 1, sticky), exp + drop)

\* The double nearest to n * 2^exp, or to a value between that and
\* (n + 1) * 2^exp when sticky: round to nearest, ties to even. With sticky,
\* n has more than 53 bits.
RoundToDouble(neg, n, exp, sticky) == Normalized(neg, n, exp, sticky, BitLength(n) - 53)

\* floor(n * 2^s / den) and the remainder, from the quotient q and the
\* remainder r of n by den (den below 2^11): the s % 20 first bits at
\* once, then digit by digit.
RECURSIVE LongDivision(_, _, _, _)
LongDivision(q, r, den, s) ==
    IF s = 0 THEN [q |-> q, r |-> r]
    ELSE IF s % 20 # 0
    THEN LongDivision(BigPlus(ShiftLeft(q, s % 20), <<0, 0, (r * 2^(s % 20)) \div den>>),
                      (r * 2^(s % 20)) % den, den, s - (s % 20))
    ELSE LongDivision(<<q[2], q[3], (r * Limb) \div den>>, (r * Limb) % den, den, s - 20)

\* The double of a quotient d.q with remainder d.r, counted in 2^exp.
DoubleOfQuotient(neg, d, exp) == RoundToDouble(neg, d.q, exp, d.r # 0)

\* The double nearest to a / 1000, the quotient taken to 57 or 58 bits.
DoubleOfThousandths(neg, a, s) ==
    DoubleOfQuotient(neg, LongDivision(Carry(0, 0, a \div 1000), a % 1000, 1000, s), 0 - s)

\* The double nearest to m thousandths: the number that parseFloat reads
\* from the decimal digits of m / 1000.
DoubleOf(m) ==
    IF m = 0 THEN DoubleZero
    ELSE IF m < 0 THEN DoubleOfThousandths(TRUE, 0 - m, 67 - BitLength(Carry(0, 0, 0 - m)))
    ELSE DoubleOfThousandths(FALSE, m, 67 - BitLength(Carry(0, 0, m)))

\* x / c, for an integer c from 2 to 32.
DoubleQuotient(x, c) ==
    IF x = DoubleZero THEN DoubleZero
    ELSE DoubleOfQuotient(x.neg, BigDivide(ShiftLeft(x.sig, 7), c), x.exp - 7)

\* x * c, for an integer c from 1 to 128.
DoubleProduct(x, c) == RoundToDouble(x.neg, BigTimes(x.sig, c), x.exp, FALSE)

\* The significand of the smaller addend with six more bits, moved by the
\* d bits between the exponents; the bits that fall off are remembered as
\* sticky.
AlignedLow(sig, d) ==
    IF d <= 6 THEN [q |-> ShiftLeft(sig, 6 - d), sticky |-> FALSE]
    ELSE IF d > 59 THEN [q |-> <<0, 0, 0>>, sticky |-> TRUE]
    ELSE ShiftRight(sig, d - 6, FALSE)

\* The sum of the aligned significands A and low.q, or their difference
\* when the signs differ, less what sticky stands for.
Combined(negHi, negLo, exp, A, low) ==
    RoundToDouble(IF negHi = negLo THEN negHi ELSE IF BigLess(low.q, A) THEN negHi ELSE negLo,
                  IF negHi = negLo THEN BigPlus(A, low.q)
                  ELSE IF BigLess(low.q, A)
                  THEN BigMinus(A, BigPlus(low.q, IF low.sticky THEN <<0, 0, 1>> ELSE <<0, 0, 0>>))
                  ELSE BigMinus(low.q, A),
                  exp, low.sticky)

Aligned(hi, lo) ==
    Combined(hi.neg, lo.neg, hi.exp - 6, ShiftLeft(hi.sig, 6), AlignedLow(lo.sig, hi.exp - lo.exp))

\* x + y
DoubleSum(x, y) ==
    IF x = DoubleZero THEN y
    ELSE IF y = DoubleZero THEN x
    ELSE IF x.exp >= y.exp THEN Aligned(x, y)
    ELSE Aligned(y, x)

\* twice is the floor of the double of the magnitude: the nearest integer,
\* a half going to the side of plus infinity.
NearestInteger(neg, twice, sticky) ==
    IF ~neg THEN (twice + 1) \div 2
    ELSE IF twice % 2 = 1 /\ ~sticky THEN 1 - ((twice + 1) \div 2)
    ELSE 0 - ((twice + 1) \div 2)

HalfUp(neg, v) == NearestInteger(neg, v.q[2] * Limb + v.q[3], v.sticky)

\* The integer nearest to n * 2^exp (exp < 0), negated when neg: Math.round.
RoundHalfUp(neg, n, exp) ==
    IF n = <<0, 0, 0>> THEN 0
    ELSE IF 0 - exp > BitLength(n) THEN 0
    ELSE HalfUp(neg, ShiftRight(n, (0 - exp) - 1, FALSE))

MathRound(x) == RoundHalfUp(x.neg, x.sig, x.exp)

\* The thousandths nearest to the double x.
Thousandths(x) == RoundHalfUp(x.neg, BigTimes(x.sig, 125), x.exp + 3)

----------------------------------------------------------------------------
(* Whole numbers of any size, for the decimal digits of a double: the      *)
(* digits of 20 bits of a number, most significant first, without leading  *)
(* zeros; zero is the empty sequence.                                      *)

\* The element of a set of one element. {F(v) : v \in {e}} computes e once
\* for all its uses in F.
TheOnly(S) == CHOOSE x \in S : TRUE

RECURSIVE Trimmed(_)
Trimmed(a) == IF a # <<>> /\ Head(a) = 0 THEN Trimmed(Tail(a)) ELSE a

\* a * c + carry, for c up to 2^10: the digits from the i-th down.
RECURSIVE TimesFrom(_, _, _, _)
TimesFrom(a, c, i, carry) ==
    IF i = 0 THEN (IF carry = 0 THEN <<>> ELSE <<carry>>)
    ELSE Append(TimesFrom(a, c, i - 1, (a[i] * c + carry) \div Limb),
                (a[i] * c + carry) % Limb)
WideTimes(a, c, carry) ==
    TheOnly({TimesFrom(digits, c, Len(digits), carry) : digits \in {a}})

\* The digits of the quotient of r * Limb^Len(a) + a by c, followed by the
\* remainder, for c up to 2^10 and r below c.
RECURSIVE LongQuotient(_, _, _)
LongQuotient(a, c, r) ==
    IF a = <<>> THEN <<r>>
    ELSE <<(r * Limb + Head(a)) \div c>> \o LongQuotient(Tail(a), c, (r * Limb + Head(a)) % c)

\* The quotient and the remainder of a by c.
WideDivide(a, c) ==
    TheOnly({[q |-> Trimmed(SubSeq(d, 1, Len(d) - 1)), r |-> d[Len(d)]] :
                d \in {LongQuotient(a, c, 0)}})

RECURSIVE DigitsLess(_, _, _)
DigitsLess(a, b, i) ==
    IF i > Len(a) THEN FALSE
    ELSE IF a[i] # b[i] THEN a[i] < b[i]
    ELSE DigitsLess(a, b, i + 1)
WideLess(a, b) ==
    TheOnly({IF Len(x) # Len(y) THEN Len(x) < Len(y) ELSE DigitsLess(x, y, 1) :
                x \in {a}, y \in {b}})

WideBitLength(a) ==
    TheOnly({IF x = <<>> THEN 0 ELSE 20 * (Len(x) - 1) + DigitLength(Head(x)) : x \in {a}})

\* a * 2^n: whole digits at once and the other bits in two steps of up to
\* ten.
WideShiftLeft(a, n) ==
    TheOnly({IF x = <<>> THEN <<>>
             ELSE WideTimes(WideTimes(x \o [i \in 1 .. n \div 20 |-> 0],
                                      2^((n % 20) \div 2), 0),
                            2^((n % 20) - ((n % 20) \div 2)), 0) :
                x \in {a}})

\* floor(a / 2^n), and sticky: some bit was shifted out, here or before.
\* Whole digits are cut at once and the other bits in two steps of up to
\* ten.
ShiftedOut(x, n, sticky, high) ==
    TheOnly({[q |-> low.q,
              sticky |-> \/ sticky
                         \/ \E i \in Len(x) - (n \div 20) + 1 .. Len(x) : x[i] # 0
                         \/ high.r # 0
                         \/ low.r # 0] :
                low \in {WideDivide(high.q, 2^((n % 20) - ((n % 20) \div 2)))}})
WideShiftRight(a, n, sticky) ==
    TheOnly({IF n \div 20 >= Len(x) THEN [q |-> <<>>, sticky |-> sticky \/ x # <<>>]
             ELSE TheOnly({ShiftedOut(x, n, sticky, high) :
                     high \in {WideDivide(SubSeq(x, 1, Len(x) - (n \div 20)),
                                          2^((n % 20) \div 2))}}) :
                x \in {a}})

\* floor(a / 10^k), and sticky: a remainder was left, here or before.
RECURSIVE DividedByTenTo(_, _, _)
DividedByTenTo(a, k, sticky) ==
    IF k = 0 THEN [q |-> a, sticky |-> sticky]
    ELSE TheOnly({DividedByTenTo(d.q, IF k >= 3 THEN k - 3 ELSE k - 1, sticky \/ d.r # 0) :
                     d \in {WideDivide(a, IF k >= 3 THEN 1000 ELSE 10)}})

\* a * 10^k
RECURSIVE TimesTenTo(_, _)
TimesTenTo(a, k) ==
    IF k = 0 THEN a
    ELSE IF k >= 3 THEN TimesTenTo(WideTimes(a, 1000, 0), k - 3)
    ELSE TimesTenTo(WideTimes(a, 10, 0), k - 1)

\* The three digits of a number below 2^60, and the number of three digits.
ThreeDigits(a) ==
    IF Len(a) = 3 THEN a
    ELSE IF Len(a) = 2 THEN <<0>> \o a
    ELSE IF Len(a) = 1 THEN <<0, 0>> \o a
    ELSE <<0, 0, 0>>
Wide(sig) == Trimmed(sig)

\* The double nearest to n / 10^k, the number that parseFloat reads from
\* the decimal digits of n with the point before the last k: the quotient
\* of n * 2^s by 10^k is taken to 56 or 57 bits.
DoubleOfDecimalBy(neg, n, k, s) ==
    TheOnly({RoundToDouble(neg, ThreeDigits(d.q), 0 - s, d.sticky) :
                d \in {DividedByTenTo(WideShiftLeft(n, s), k, FALSE)}})
DoubleOfDecimal(neg, n, k) ==
    TheOnly({IF digits = <<>> THEN DoubleZero
             ELSE DoubleOfDecimalBy(neg, digits, k,
                      56 - WideBitLength(digits) + WideBitLength(TimesTenTo(<<1>>, k))) :
                digits \in {n}})

\* The decimal n / 10^k is read as the double of significand sig and
\* exponent 0 - e: it lies between the middles to the doubles next to it,
\* or on one of them when sig is even. All are counted in 2^(0 - e - 2);
\* the double below that of the significand 2^52 is half as far.
LiesBetween(lower, scaled, upper, closed) ==
    IF closed THEN ~WideLess(scaled, lower) /\ ~WideLess(upper, scaled)
    ELSE WideLess(lower, scaled) /\ WideLess(scaled, upper)
ReadsAs(n, k, sig, e) ==
    TheOnly({LiesBetween(lower, scaled, upper, sig[3] % 2 = 0) :
                lower \in {TimesTenTo(Wide(BigMinus(BigTimes(sig, 4),
                                IF sig = <<2^12, 0, 0>> THEN <<0, 0, 1>> ELSE <<0, 0, 2>>)), k)},
                scaled \in {WideShiftLeft(n, e + 2)},
                upper \in {TimesTenTo(Wide(BigPlus(BigTimes(sig, 4), <<0, 0, 2>>)), k)}})

\* Of the two decimals lo and lo + 1 of k digits after the point around
\* the double, the one that is read as the double, the nearer one when both
\* are (the even one in the middle); none when neither is. The double is
\* halfway or more from lo to lo + 1, and above the middle.
NearerOf(lo, halfway, above, below, over) ==
    IF below /\ over
    THEN (IF halfway /\ (above \/ (lo # <<>> /\ lo[Len(lo)] % 2 = 1))
          THEN <<WideTimes(lo, 1, 1)>> ELSE <<lo>>)
    ELSE IF below THEN <<lo>>
    ELSE IF over THEN <<WideTimes(lo, 1, 1)>>
    ELSE <<>>

\* The decimal of k digits after the point that is read as the double and
\* is nearest to it, if there is one: twice is the floor of twice the
\* double in units of 10^-k.
DecimalNear(twice, k, sig, e) ==
    TheOnly({NearerOf(half.q, half.r = 1, twice.sticky,
                      ReadsAs(half.q, k, sig, e), ReadsAs(WideTimes(half.q, 1, 1), k, sig, e)) :
                half \in {WideDivide(twice.q, 2)}})
DecimalOf(sig, e, k) ==
    TheOnly({DecimalNear(twice, k, sig, e) :
                twice \in {WideShiftRight(TimesTenTo(Wide(sig), k), e - 1, FALSE)}})

\* The shortest decimal that is read as the double, as its digits n and
\* the number k of those after the point, for a double that is no whole
\* number: the smallest k from least to most for which there is one. There
\* is one for most, and with one of k digits there is one of k + 1.
RECURSIVE ShortestBetween(_, _, _, _)
ShortestBetween(sig, e, least, most) ==
    IF least = most THEN [n |-> DecimalOf(sig, e, least)[1], k |-> least]
    ELSE IF DecimalOf(sig, e, (least + most) \div 2) # <<>>
    THEN ShortestBetween(sig, e, least, (least + most) \div 2)
    ELSE ShortestBetween(sig, e, ((least + most) \div 2) + 1, most)

\* The largest number of digits after the point of the shortest decimal of
\* a double from 10^-6: 17 digits after up to 6 zeros.
MostDigits == 23

\* The whole number m * 10^j is read as the double of significand sig and
\* exponent exp, for exp from 0: all are counted in 2^(exp - 2).
ReadsAsWhole(m, j, sig, exp) ==
    TheOnly({LiesBetween(ends[1], scaled, ends[2], sig[3] % 2 = 0) :
                ends \in {[upper \in 1 .. 2 |->
                              WideShiftLeft(
                                  Wide(IF upper = 2 THEN BigPlus(BigTimes(sig, 4), <<0, 0, 2>>)
                                       ELSE BigMinus(BigTimes(sig, 4),
                                                IF sig = <<2^12, 0, 0>> THEN <<0, 0, 1>>
                                                ELSE <<0, 0, 2>>)), exp)]},
                scaled \in {WideShiftLeft(TimesTenTo(m, j), 2)}})

\* The multiple of 10^j that is read as the double and is nearest to it, as
\* its digits before the j zeros, if there is one: twice is the floor of
\* twice the double in units of 10^j.
NearerWhole(half, above, j, sig, exp) ==
    TheOnly({NearerOf(half.q, half.r = 1, above, reads[1], reads[2]) :
                reads \in {[up \in 1 .. 2 |->
                               ReadsAsWhole(WideTimes(half.q, 1, up - 1), j, sig, exp)]}})
WholeNear(twice, j, sig, exp) ==
    TheOnly({NearerWhole(half, twice.sticky, j, sig, exp) : half \in {WideDivide(twice.q, 2)}})
WholeOf(sig, exp, j) ==
    TheOnly({WholeNear(twice, j, sig, exp) :
                twice \in {DividedByTenTo(WideShiftLeft(Wide(sig), exp + 1), j, FALSE)}})

----------------------------------------------------------------------------
(* common.ts: safeParseInt and safeParseFloat.                              *)

Digits == <<"0", "1", "2", "3", "4", "5", "6", "7", "8", "9">>
IsDigit(ch) == ch \in Range(Digits)
DigitValue(ch) == (CHOOSE i \in DOMAIN Digits : Digits[i] = ch) - 1
\* The white space and line terminators that parseInt, parseFloat and trim
\* skip (StrWhiteSpaceChar): space, tab, line feed, carriage return, form
\* feed, and the characters written here by their code points: vertical
\* tab, no-break space, byte order mark, line and paragraph separator and
\* the other space separators.
WhiteSpace ==
    {" ", "\t", "\n", "\r", "\f", "U+000B", "U+00A0", "U+FEFF", "U+2028", "U+2029",
     "U+1680", "U+2000", "U+2001", "U+2002", "U+2003", "U+2004", "U+2005", "U+2006",
     "U+2007", "U+2008", "U+2009", "U+200A", "U+202F", "U+205F", "U+3000"}
IsWhiteSpace(ch) == ch \in WhiteSpace

\* A number with a fraction (points, yards, sacks): Milli(2500) is 2.5, the
\* double nearest to m thousandths. Decimals with digits beyond the third
\* are outside the inputs of the model.
Milli(m) == [t |-> "number", milli |-> m]

\* The number value of the double x near m thousandths: Milli(m) when x is
\* the double nearest to them, and otherwise (a sum of doubles that left
\* the nearest one) the thousandths together with the double itself.
NumberNear(x, m) ==
    IF DoubleOf(m) = x THEN Milli(m) ELSE [t |-> "number", milli |-> m, double |-> x]
Number(x) == NumberNear(x, Thousandths(x))

\* The double of a number value; the whole numbers of the model are below
\* 2^21.
ToDouble(val) ==
    IF "double" \in DOMAIN val THEN val.double
    ELSE DoubleOf(IF "milli" \in DOMAIN val THEN val.milli ELSE 1000 * val.n)

\* The decimal digits of a natural number.
RECURSIVE NatChars(_)
NatChars(n) ==
    IF n < 10 THEN <<Digits[n + 1]>>
    ELSE Append(NatChars(n \div 10), Digits[(n % 10) + 1])

\* The digits after the decimal point of f thousandths (1 .. 999), without
\* trailing zeros.
FractionChars(f) ==
    LET ds == <<Digits[(f \div 100) + 1], Digits[((f \div 10) % 10) + 1], Digits[(f % 10) + 1]>>
    IN  IF f % 10 # 0 THEN ds
        ELSE IF f % 100 # 0 THEN SubSeq(ds, 1, 2)
        ELSE SubSeq(ds, 1, 1)

\* Number.prototype.toString of m thousandths: "3", "2.5", "-0.25".
NumberChars(m) ==
    LET a == IF m < 0 THEN 0 - m ELSE m
        body == NatChars(a \div 1000) \o
                (IF a % 1000 = 0 THEN <<>> ELSE <<".">> \o FractionChars(a % 1000))
    IN  IF m < 0 THEN <<"-">> \o body ELSE body

\* The decimal digits of a whole number of any size.
RECURSIVE DecimalChars(_)
DecimalChars(a) ==
    TheOnly({IF x = <<>> THEN <<>>
             ELSE TheOnly({Append(DecimalChars(d.q), Digits[d.r + 1]) :
                              d \in {WideDivide(x, 10)}}) :
                x \in {a}})

\* Digits with zeros before them up to the length len, and with the point
\* before the last k of them.
PaddedTo(cs, len) ==
    IF Len(cs) >= len THEN cs ELSE [i \in 1 .. len - Len(cs) |-> "0"] \o cs
WithPoint(cs, k) ==
    SubSeq(cs, 1, Len(cs) - k) \o <<".">> \o SubSeq(cs, Len(cs) - k + 1, Len(cs))
PointedChars(decimal) ==
    TheOnly({WithPoint(cs, decimal.k) :
                cs \in {TheOnly({PaddedTo(digits, decimal.k + 1) :
                                    digits \in {DecimalChars(decimal.n)}})}})

\* Number.prototype.toString of a double: the digits of the whole number
\* that it is, or those of the shortest decimal that is read as the double,
\* "0.6499999999999999"; for a whole number from 2^52 the shortest digits
\* that are read as the double and then zeros, "1152921504606847000" for
\* 2^60. Numbers from 10^21 and numbers below 10^-6, which
\* are written with an exponent, are outside the inputs of the model.
\* ShortestWhole is given the digits that are read as the double before j
\* zeros and goes on to the largest number of zeros: with digits for j + 1
\* zeros there are digits for j, and the digits of the double itself are
\* digits for none.
RECURSIVE ShortestWhole(_, _, _, _)
ShortestWhole(sig, exp, j, digits) ==
    TheOnly({IF more = <<>> THEN DecimalChars(digits) \o [i \in 1 .. j |-> "0"]
             ELSE ShortestWhole(sig, exp, j + 1, more[1]) :
                more \in {WholeOf(sig, exp, j + 1)}})
WholeOrPointed(whole, sig, e) ==
    IF ~whole.sticky THEN DecimalChars(whole.q)
    ELSE TheOnly({PointedChars(decimal) :
                     decimal \in {ShortestBetween(sig, e, 1, MostDigits)}})
DoubleChars(x) ==
    TheOnly({(IF d.neg THEN <<"-">> ELSE <<>>) \o
             (IF d = DoubleZero THEN <<"0">>
              ELSE IF d.exp >= 0
              THEN TheOnly({ShortestWhole(d.sig, d.exp, 0, digits) :
                               digits \in {WideShiftLeft(Wide(d.sig), d.exp)}})
              ELSE TheOnly({WholeOrPointed(whole, d.sig, 0 - d.exp) :
                               whole \in {WideShiftRight(Wide(d.sig), 0 - d.exp, FALSE)}})) :
                d \in {x}})

\* String(val) of a string, a number, a boolean, null, a plain object or
\* undefined.
String(val) ==
    IF val.t = "string" THEN val.chars
    ELSE IF val.t = "number"
    THEN (IF "double" \in DOMAIN val THEN DoubleChars(val.double)
          ELSE IF "milli" \in DOMAIN val THEN NumberChars(val.milli)
          ELSE NumberChars(1000 * val.n))
    ELSE IF val.t = "null" THEN <<"n", "u", "l", "l">>
    ELSE IF val.t = "boolean"
    THEN (IF val.b THEN <<"t", "r", "u", "e">> ELSE <<"f", "a", "l", "s", "e">>)
    ELSE IF val.t = "object"
    THEN <<"[", "o", "b", "j", "e", "c", "t", " ", "O", "b", "j", "e", "c", "t", "]">>
    ELSE <<"u", "n", "d", "e", "f", "i", "n", "e", "d">>

RECURSIVE SkipWhiteSpace(_)
SkipWhiteSpace(cs) ==
    IF cs # <<>> /\ IsWhiteSpace(Head(cs)) THEN SkipWhiteSpace(Tail(cs)) ELSE cs

\* The value of the longest prefix of digits of cs, given the value acc of
\* the digits read so far.
RECURSIVE ReadDigits(_, _)
ReadDigits(cs, acc) ==
    IF cs # <<>> /\ IsDigit(Head(cs))
    THEN ReadDigits(Tail(cs), 10 * acc + DigitValue(Head(cs)))
    ELSE acc

\* parseInt(cs, 10): leading white space, an optional sign, then digits up
\* to the first other character; NaN when no digit follows.
parseInt(cs) ==
    LET body == SkipWhiteSpace(cs)
        signed == body # <<>> /\ Head(body) \in {"+", "-"}
        digits == IF signed THEN Tail(body) ELSE body
    IN  IF digits = <<>> \/ ~IsDigit(Head(digits))
        THEN [isNaN |-> TRUE, n |-> 0]
        ELSE [isNaN |-> FALSE,
              n |-> IF signed /\ Head(body) = "-"
                    THEN 0 - ReadDigits(digits, 0)
                    ELSE ReadDigits(digits, 0)]

safeParseInt(val) ==
    LET num == parseInt(String(val))
    IN  IF num.isNaN THEN 0 ELSE num.n

\* The rest of cs after its leading digits.
RECURSIVE DropDigits(_)
DropDigits(cs) ==
    IF cs # <<>> /\ IsDigit(Head(cs)) THEN DropDigits(Tail(cs)) ELSE cs

\* The thousandths that the leading digits of cs stand for after a decimal
\* point, the first digit counting unit thousandths.
RECURSIVE ReadFraction(_, _, _)
ReadFraction(cs, unit, acc) ==
    IF cs # <<>> /\ IsDigit(Head(cs))
    THEN ReadFraction(Tail(cs), unit \div 10, acc + unit * DigitValue(Head(cs)))
    ELSE acc

\* The whole number that the leading digits of cs stand for after the
\* digits of acc.
RECURSIVE ReadWide(_, _)
ReadWide(cs, acc) ==
    IF cs # <<>> /\ IsDigit(Head(cs))
    THEN ReadWide(Tail(cs), WideTimes(acc, 10, DigitValue(Head(cs))))
    ELSE acc

\* parseFloat(cs): leading white space, an optional sign, digits, an
\* optional point and digits; NaN when there is no digit. The number is
\* the double nearest to the decimal: that of its thousandths when it has
\* up to three digits after the point. Strings with an exponent, with
\* more than 40 digits or "Infinity" are outside the inputs of the model.
parseFloat(cs) ==
    LET body == SkipWhiteSpace(cs)
        signed == body # <<>> /\ Head(body) \in {"+", "-"}
        rest == IF signed THEN Tail(body) ELSE body
        hasWhole == rest # <<>> /\ IsDigit(Head(rest))
        afterWhole == DropDigits(rest)
        fraction == IF afterWhole # <<>> /\ Head(afterWhole) = "." THEN Tail(afterWhole) ELSE <<>>
        hasFraction == fraction # <<>> /\ IsDigit(Head(fraction))
        magnitude == 1000 * ReadDigits(rest, 0) + ReadFraction(fraction, 100, 0)
        negative == signed /\ Head(body) = "-"
    IN  IF ~hasWhole /\ ~hasFraction
        THEN [isNaN |-> TRUE, num |-> Milli(0)]
        ELSE [isNaN |-> FALSE,
              num |-> IF Len(fraction) - Len(DropDigits(fraction)) <= 3
                      THEN Milli(IF negative THEN 0 - magnitude ELSE magnitude)
                      ELSE Number(DoubleOfDecimal(negative,
                                      ReadWide(fraction, ReadWide(rest, <<>>)),
                                      Len(fraction) - Len(DropDigits(fraction))))]

\* safeParseFloat: the number that parseFloat reads from String(val), 0
\* when it reads none.
safeParseFloat(val) ==
    LET num == parseFloat(String(val))
    IN  IF num.isNaN THEN Milli(0) ELSE num.num

----------------------------------------------------------------------------
(* Firestore collections as partial functions from document path to data.  *)

EmptyCollection == [path \in {} |-> 0]

Exists(collection, path) == path \in DOMAIN collection

\* DocumentReference.set(data) without merge: the document becomes data.
SetDoc(collection, path, data) ==
    [p \in DOMAIN collection \cup {path} |-> IF p = path THEN data ELSE collection[p]]

----------------------------------------------------------------------------
(* saveWeeklyLineup, step 1 and 2: authentication and input validation.    *)

\* A pick as the client sends it: {id, type}.
Pick(id, type) == [id |-> id, type |-> type]

\* Object.keys(picks), as a set.
Keys(picks) == DOMAIN picks.o

\* The pick of one position is malformed: unknown position, id that is not
\* a string, or type outside player / team.
InvalidPick(picks, pos) ==
    \/ pos \notin Range(validPositions)
    \/ typeof(picks.o[pos].id) # "string"
    \/ picks.o[pos].type \notin {Str("player"), Str("team")}

\* ValidationError without the upper bound of the week.
ValidationErrorNoUpperWeek(auth, data) ==
    IF typeof(auth) # "string" \/ auth.s = ""
    THEN "unauthenticated"
    ELSE IF typeof(data.leagueId) # "string" \/ data.leagueId.s = ""
    THEN "invalid-argument"
    ELSE IF typeof(data.week) # "number" \/ data.week.n < 1
    THEN "invalid-argument"
    ELSE IF \/ typeof(data.picks) # "object"
            \/ data.picks = Null
            \/ Keys(data.picks) = {}
    THEN "invalid-argument"
    ELSE IF \E pos \in Keys(data.picks) : InvalidPick(data.picks, pos)
    THEN "invalid-argument"
    ELSE ""

\* The code of the HttpsError that authentication and validation throw for
\* a request, "" when the request passes both.
ValidationError(auth, data) ==
    IF typeof(auth) # "string" \/ auth.s = ""
    THEN "unauthenticated"
    ELSE IF typeof(data.leagueId) # "string" \/ data.leagueId.s = ""
    THEN "invalid-argument"
    ELSE IF \/ typeof(data.week) # "number"
            \/ data.week.n < 1
            \/ data.week.n > MAX_NFL_WEEKS
    THEN "invalid-argument"
    ELSE IF \/ typeof(data.picks) # "object"
            \/ data.picks = Null
            \/ Keys(data.picks) = {}
    THEN "invalid-argument"
    ELSE IF \E pos \in Keys(data.picks) : InvalidPick(data.picks, pos)
    THEN "invalid-argument"
    ELSE ""

----------------------------------------------------------------------------
(* saveWeeklyLineup: the deadline check.                                   *)

scheduleDocId(week) == <<currentSeason, "week", week>>

\* scheduleSync.ts: doc(`${season}_week_${week}`)
weekDocRef(season, week) == <<season, "week", week>>

\* games.forEach: the smallest positive kickoff epoch, from MAX_SAFE_INTEGER.
RECURSIVE earliestGameEpochFrom(_, _)
earliestGameEpochFrom(games, earliest) ==
    IF games = <<>> THEN earliest
    ELSE LET gameEpoch == safeParseInt(Head(games).gameTimeEpoch)
         IN  earliestGameEpochFrom(
                 Tail(games),
                 IF gameEpoch > 0 /\ gameEpoch < earliest THEN gameEpoch ELSE earliest)

earliestGameEpoch(games) == earliestGameEpochFrom(games, MAX_SAFE_INTEGER)

\* deadlinePassed with > for >=: the kickoff second itself is still open.
deadlinePassedStrict(games, nowEpoch) ==
    earliestGameEpoch(games) > 0 /\ nowEpoch > earliestGameEpoch(games)

deadlinePassed(games, nowEpoch) ==
    earliestGameEpoch(games) > 0 /\ nowEpoch >= earliestGameEpoch(games)

\* DeadlineError that lets a week without a schedule row, or with a row
\* without games, through.
DeadlineErrorFailOpen(schedules, week, nowEpoch) ==
    IF ~Exists(schedules, scheduleDocId(week))
    THEN [code |-> "", message |-> ""]
    ELSE LET scheduleData == schedules[scheduleDocId(week)]
         IN  IF "games" \in DOMAIN scheduleData /\ Len(scheduleData.games) > 0
             THEN IF deadlinePassed(scheduleData.games, nowEpoch)
                  THEN [code |-> "failed-precondition", message |-> "deadline has passed"]
                  ELSE [code |-> "", message |-> ""]
             ELSE [code |-> "", message |-> ""]

\* The outcome of the deadline check for a week, read from the schedule
\* collection at second nowEpoch: the thrown error, or "" when the save may go on.
\* The not-found error is thrown inside the try block whose catch turns every
\* error into 'internal'.
DeadlineError(schedules, week, nowEpoch) ==
    IF ~Exists(schedules, scheduleDocId(week))
    THEN [code |-> "internal", message |-> "Could not verify lineup deadline."]
    ELSE LET scheduleData == schedules[scheduleDocId(week)]
         IN  IF "games" \in DOMAIN scheduleData /\ Len(scheduleData.games) > 0
             THEN IF deadlinePassed(scheduleData.games, nowEpoch)
                  THEN [code |-> "failed-precondition", message |-> "deadline has passed"]
                  ELSE [code |-> "", message |-> ""]
             ELSE [code |-> "failed-precondition", message |-> "Cannot determine deadline"]

----------------------------------------------------------------------------
(* saveWeeklyLineup: the transaction.                                      *)

\* The strings of the model that contain '/', with their parts between the
\* '/'; every other string of the model is one part.
SlashedStrings ==
    ("L/1" :> <<"L", "1">>) @@ ("L/1/2" :> <<"L", "1", "2">>) @@
    ("a/b" :> <<"a", "b">>) @@ ("a/b/c" :> <<"a", "b", "c">>) @@
    ("x/b/c" :> <<"x", "b", "c">>) @@
    ("T/1" :> <<"T", "1">>) @@ ("T/1/2" :> <<"T", "1", "2">>)
PathParts(s) == IF s \in DOMAIN SlashedStrings THEN SlashedStrings[s] ELSE <<s>>

\* `${leagueId}_${currentSeason}_${week}`, kept as its three parts, and the
\* reference collection('users').doc(userId).collection('weeklyLineups')
\* .doc(lineupDocId), kept as the user and the relative path lineupDocId.
lineupDocId(leagueId, week) == <<leagueId, currentSeason, week>>
lineupDocRef(userId, leagueId, week) == <<userId, lineupDocId(leagueId, week)>>

\* doc(lineupDocId) names a document when the relative path has an odd
\* number of parts; with one part it is a document of weeklyLineups, with
\* more it is a document of a collection below weeklyLineups.
IsLineupDocument(leagueId) == Len(PathParts(leagueId)) % 2 = 1
InWeeklyLineups(path) == Len(PathParts(path[2][1])) = 1

\* db.doc(`${usageCollectionPath}/${entityId}`) names a document when the
\* parts of leagueId and of pick.id add up to an even number of segments.
IsUsageDocument(leagueId, entityId) ==
    (Len(PathParts(leagueId)) + Len(PathParts(entityId[2]))) % 2 = 0

\* doc.id of a usage document: the last segment of its path, which is the
\* entityId when pick.id has no '/'.
UsageDocId(entityId) ==
    IF Len(PathParts(entityId[2])) = 1 THEN entityId
    ELSE <<PathParts(entityId[2])[Len(PathParts(entityId[2]))]>>

\* `${pick.type}_${pick.id}`, kept as the pair of its two parts.
entityIdOf(pick) == <<pick.type.s, pick.id.s>>

\* usageDocRef with one counter per user, season and entity for all leagues.
usageDocRefNoLeague(userId, leagueId, entityId) == <<userId, <<"", currentSeason>>, entityId>>

\* usageDocRef with one counter per league-season and entity for all users.
usageDocRefShared(userId, leagueId, entityId) == <<"", <<leagueId, currentSeason>>, entityId>>

usageDocRef(userId, leagueId, entityId) == <<userId, <<leagueId, currentSeason>>, entityId>>

\* for (const position in picks) with if (pick): the positions of the picks
\* object in the order the client created them, a pick that is falsy left
\* out.
Positions(picks) == SelectSeq(picks.keys, LAMBDA pos : Truthy(picks.o[pos]))

\* lineupPicksWithTimestamp: every submitted pick with its selection time.
lineupPicksWithTimestamp(picks, now) ==
    [pos \in Range(Positions(picks)) |->
        [id |-> picks.o[pos].id.s, type |-> picks.o[pos].type.s, selectedAt |-> now]]

\* entityIdsToUpdate: one entry per submitted position, in loop order.
entityIdsToUpdate(picks) ==
    [i \in DOMAIN Positions(picks) |-> entityIdOf(picks.o[Positions(picks)[i]])]

\* transaction.getAll(...usageDocRefs): the usage documents the transaction
\* read, one per reference, each with its stored data or null when it does
\* not exist. The transaction commits only while all of them are unchanged.
usageDocs(usage, userId, leagueId, picks) ==
    LET ids == entityIdsToUpdate(picks)
    IN  [path \in {usageDocRef(userId, leagueId, ids[i]) : i \in DOMAIN ids} |->
            IF Exists(usage, path) THEN usage[path] ELSE Null]

\* usageDocs.forEach(doc => currentUsages[doc.id] = ...): the count of each
\* document read, 0 for one that does not exist, under its doc.id. The
\* documents come in the order of usageDocRefs, so of two with the same
\* doc.id the one of the later position stays.
RECURSIVE currentUsagesFrom(_, _, _, _)
currentUsagesFrom(docs, userId, leagueId, ids) ==
    IF ids = <<>> THEN [docId \in {} |-> 0]
    ELSE LET earlier == currentUsagesFrom(docs, userId, leagueId, SubSeq(ids, 1, Len(ids) - 1))
             doc == docs[usageDocRef(userId, leagueId, ids[Len(ids)])]
             docId == UsageDocId(ids[Len(ids)])
         IN  [id \in DOMAIN earlier \cup {docId} |->
                 IF id # docId THEN earlier[id]
                 ELSE IF doc = Null THEN 0
                 ELSE doc.count]

currentUsages(usage, userId, leagueId, picks) ==
    currentUsagesFrom(usageDocs(usage, userId, leagueId, picks), userId, leagueId,
                      entityIdsToUpdate(picks))

\* currentUsages[entityId] ?? 0
currentCount(usages, entityId) ==
    IF entityId \in DOMAIN usages THEN usages[entityId] ELSE 0

\* Validate Usage Limits: some entity of the submission is at the cap.
UsageLimitReached(usages, picks) ==
    \E i \in DOMAIN entityIdsToUpdate(picks) :
        currentCount(usages, entityIdsToUpdate(picks)[i]) >= MAX_USAGE_COUNT

lineupData(userId, leagueId, week, picks, now) ==
    [userId |-> userId, leagueId |-> leagueId, season |-> currentSeason, week |-> week,
     picks |-> lineupPicksWithTimestamp(picks, now),
     isComplete |-> Cardinality(DOMAIN lineupPicksWithTimestamp(picks, now)) = CompleteLineupSize,
     lastUpdated |-> now,
     totalPoints |-> Null]

\* MergeLineup of data without the totalPoints field: the stored total of a
\* row that exists stays.
MergeLineupKeepTotal(collection, path, data) ==
    IF ~Exists(collection, path) THEN SetDoc(collection, path, data)
    ELSE SetDoc(collection, path,
            [data EXCEPT !.totalPoints = collection[path].totalPoints,
                         !.picks =
                [pos \in DOMAIN collection[path].picks \cup DOMAIN data.picks |->
                    IF pos \in DOMAIN data.picks THEN data.picks[pos]
                    ELSE collection[path].picks[pos]]])

\* set(ref, data, {merge: true}) of a lineup row: the fields of data replace
\* the stored fields, and the map field picks is merged key by key, so a
\* stored position that data does not name stays.
MergeLineup(collection, path, data) ==
    IF ~Exists(collection, path) THEN SetDoc(collection, path, data)
    ELSE SetDoc(collection, path,
            [data EXCEPT !.picks =
                [pos \in DOMAIN collection[path].picks \cup DOMAIN data.picks |->
                    IF pos \in DOMAIN data.picks THEN data.picks[pos]
                    ELSE collection[path].picks[pos]]])

\* set(usageDocRef, {entityId, type, count: FieldValue.increment(1)}, {merge: true})
IncrementUsage(collection, path, entityId) ==
    SetDoc(collection, path,
        [entityId |-> entityId,
         type |-> IF entityId[1] = "player" THEN "player" ELSE "team",
         count |-> IF Exists(collection, path) THEN collection[path].count + 1 ELSE 1])

\* Increment usage counts: one write per entry of entityIdsToUpdate, applied
\* in order when the transaction commits.
RECURSIVE IncrementAll(_, _, _, _)
IncrementAll(collection, userId, leagueId, entityIds) ==
    IF entityIds = <<>> THEN collection
    ELSE IncrementAll(
            IncrementUsage(collection, usageDocRef(userId, leagueId, Head(entityIds)),
                           Head(entityIds)),
            userId, leagueId, Tail(entityIds))

----------------------------------------------------------------------------
(* pointsCalculator.ts and statsAggregators.ts: the points of the units of *)
(* a team, computed from the box score of a game. Points, yards and sacks  *)
(* are counted in thousandths.                                             *)

\* obj?.[name]: the property of an object, undefined when it has none; of
\* undefined and null the optional chaining gives undefined, and a number,
\* a boolean or a string has none of the properties the code reads.
Field(obj, name) ==
    IF obj.t # "object" THEN Undefined
    ELSE IF name \in DOMAIN obj.o THEN obj.o[name]
    ELSE Undefined

\* Math.round(points * 100) / 100, in thousandths: a number of cents
\* divided by 100 is the double nearest to that many hundredths.
roundToCents(points) == 10 * MathRound(DoubleProduct(points, 100))

\* for (const playerId in playerStatsMap) { if (...) total += value }: the
\* loop over the keys in their order, from the total acc.
RECURSIVE ForInSum(_, _, _, _)
ForInSum(order, counted, value, acc) ==
    IF order = <<>> THEN acc
    ELSE ForInSum(Tail(order), counted, value,
                  IF Head(order) \in counted THEN acc + value[Head(order)] ELSE acc)

\* The same loop over doubles.
RECURSIVE ForInDoubleSum(_, _, _, _)
ForInDoubleSum(order, counted, value, acc) ==
    IF order = <<>> THEN acc
    ELSE ForInDoubleSum(Tail(order), counted, value,
                        IF Head(order) \in counted
                        THEN DoubleSum(acc, value[Head(order)]) ELSE acc)

\* PlayersWith without the comparison of the teamID.
PlayersOfAnyTeamWith(playerStatsMap, teamID, category) ==
    {playerId \in DOMAIN playerStatsMap.o :
        Truthy(Field(playerStatsMap.o[playerId], category))}

\* playerData?.teamID === teamID && playerData[category]: the players of
\* the map whose teamID is the team and whose category of statistics is
\* truthy.
PlayersWith(playerStatsMap, teamID, category) ==
    {playerId \in DOMAIN playerStatsMap.o :
        /\ Field(playerStatsMap.o[playerId], "teamID") = teamID
        /\ Truthy(Field(playerStatsMap.o[playerId], category))}

\* The statistics of one category of a player, and the total of one of
\* them over the players counted, added up in the order of the keys of
\* playerStatsMap: parsed as an integer, and parsed as a float.
StatOf(playerStatsMap, playerId, category, name) ==
    Field(Field(playerStatsMap.o[playerId], category), name)
totalInt(playerStatsMap, players, category, name) ==
    Num(ForInSum(playerStatsMap.keys, players,
            [p \in players |-> safeParseInt(StatOf(playerStatsMap, p, category, name))], 0))
totalFloat(playerStatsMap, players, category, name) ==
    Number(ForInDoubleSum(playerStatsMap.keys, players,
            [p \in players |->
                ToDouble(safeParseFloat(StatOf(playerStatsMap, p, category, name)))],
            DoubleZero))

aggregatePassingStats(playerStatsMap, teamID) ==
    Obj([totalPassingYards |->
            totalFloat(playerStatsMap, PlayersWith(playerStatsMap, teamID, "Passing"),
                       "Passing", "passYds"),
         totalPassingTDs |->
            totalInt(playerStatsMap, PlayersWith(playerStatsMap, teamID, "Passing"),
                     "Passing", "passTD"),
         totalInterceptionsThrown |->
            totalInt(playerStatsMap, PlayersWith(playerStatsMap, teamID, "Passing"),
                     "Passing", "int")])

aggregateRushingStats(playerStatsMap, teamID) ==
    Obj([totalRushingYards |->
            totalFloat(playerStatsMap, PlayersWith(playerStatsMap, teamID, "Rushing"),
                       "Rushing", "rushYds"),
         totalRushingTDs |->
            totalInt(playerStatsMap, PlayersWith(playerStatsMap, teamID, "Rushing"),
                     "Rushing", "rushTD")])

aggregateKickingStats(playerStatsMap, teamID) ==
    Obj([totalExtraPointsMade |->
            totalInt(playerStatsMap, PlayersWith(playerStatsMap, teamID, "Kicking"),
                     "Kicking", "xpMade"),
         totalFieldGoalsMade |->
            totalInt(playerStatsMap, PlayersWith(playerStatsMap, teamID, "Kicking"),
                     "Kicking", "fgMade")])

aggregateSpecialTeamsReturnStats(playerStatsMap, teamID) ==
    Obj([totalKickReturnTDs |->
            totalInt(playerStatsMap, PlayersWith(playerStatsMap, teamID, "Kicking"),
                     "Kicking", "kickReturnTD"),
         totalPuntReturnTDs |->
            totalInt(playerStatsMap, PlayersWith(playerStatsMap, teamID, "Punting"),
                     "Punting", "puntReturnTD"),
         totalFumbleReturnTDs |->
            totalInt(playerStatsMap, PlayersWith(playerStatsMap, teamID, "Defense"),
                     "Defense", "fumRetTD")])

\* A number value that is given by its double.
Double(x) == [t |-> "number", double |-> x]

\* points += addend, for the addends in their order.
RECURSIVE AddedUp(_, _)
AddedUp(points, addends) ==
    IF addends = <<>> THEN points
    ELSE AddedUp(DoubleSum(points, ToDouble(Head(addends))), Tail(addends))

\* if (!teamGameStats?.passingStats) return 0; then 1 point per 25 passing
\* yards and 6 per touchdown, added to points in the order of the
\* statements; the result in thousandths.
calculatePassingOffensePoints(teamGameStats) ==
    IF ~Truthy(Field(teamGameStats, "passingStats")) THEN 0
    ELSE roundToCents(AddedUp(DoubleZero,
            <<Double(DoubleQuotient(
                        ToDouble(safeParseFloat(
                            Field(Field(teamGameStats, "passingStats"), "totalPassingYards"))),
                        25)),
              Num(safeParseInt(
                    Field(Field(teamGameStats, "passingStats"), "totalPassingTDs")) * 6)>>))

\* 1 point per 10 rushing yards and 6 per touchdown.
calculateRushingOffensePoints(teamGameStats) ==
    IF ~Truthy(Field(teamGameStats, "rushingStats")) THEN 0
    ELSE roundToCents(AddedUp(DoubleZero,
            <<Double(DoubleQuotient(
                        ToDouble(safeParseFloat(
                            Field(Field(teamGameStats, "rushingStats"), "totalRushingYards"))),
                        10)),
              Num(safeParseInt(
                    Field(Field(teamGameStats, "rushingStats"), "totalRushingTDs")) * 6)>>))

\* The points for the points allowed: defStats.ptsAllowed ?? 99, then the tiers.
pointsAllowedTier(defStats) ==
    LET ptsAllowed == IF Field(defStats, "ptsAllowed").t \in {"undefined", "null"}
                      THEN 99 ELSE Field(defStats, "ptsAllowed").n
    IN  IF ptsAllowed = 0 THEN 10
        ELSE IF ptsAllowed >= 2 /\ ptsAllowed <= 9 THEN 6
        ELSE IF ptsAllowed >= 10 /\ ptsAllowed <= 20 THEN 3
        ELSE 0

\* The interceptions and the recovered fumbles are read from
\* defensiveInterceptions and fumblesRecovered.
calculateDefensePoints(teamGameStats) ==
    IF ~Truthy(Field(teamGameStats, "teamDefData")) THEN 0
    ELSE roundToCents(AddedUp(DoubleZero,
            <<Num(pointsAllowedTier(Field(teamGameStats, "teamDefData"))),
              Num((safeParseInt(Field(Field(teamGameStats, "teamDefData"),
                                      "defensiveInterceptions"))
                   + safeParseInt(Field(Field(teamGameStats, "teamDefData"),
                                        "fumblesRecovered"))) * 2),
              safeParseFloat(Field(Field(teamGameStats, "teamDefData"), "sacks")),
              Num(safeParseInt(Field(Field(teamGameStats, "teamDefData"), "safeties")) * 2),
              Num(safeParseInt(Field(Field(teamGameStats, "teamDefData"), "defTD")) * 6)>>))

calculateSpecialTeamsPoints(teamGameStats) ==
    IF ~Truthy(Field(teamGameStats, "specialTeamsStats")) THEN 0
    ELSE roundToCents(AddedUp(DoubleZero,
            <<Num(safeParseInt(Field(Field(teamGameStats, "specialTeamsStats"), "xpMade")) * 1),
              Num(safeParseInt(Field(Field(teamGameStats, "specialTeamsStats"), "fgMade")) * 3),
              Num((safeParseInt(Field(Field(teamGameStats, "specialTeamsStats"), "kickReturnTD"))
                   + safeParseInt(Field(Field(teamGameStats, "specialTeamsStats"),
                                        "puntReturnTD"))) * 6),
              Num(safeParseInt(Field(Field(teamGameStats, "specialTeamsStats"), "xpReturn")) * 2)>>))

----------------------------------------------------------------------------
(* statsSync.ts, fetchAndProcessSingleGameStats: the documents stored for  *)
(* the box score of one game. A document is the record of its fields, each *)
(* a value with its type: a string, a number, a timestamp or a map.        *)

\* {}: the map without fields.
EmptyMap == Obj([name \in {} |-> Undefined])

\* The gameID of a game as the string of the document id and of the field
\* gameId; the games of the model are numbered.
GameId(game) == [t |-> "string", gameID |-> game]

\* The value of a field is a map: Firestore tells by the type of the value.
IsMap(value) == value.t = "object"

\* The merge of the fields of data into the stored ones. The field mask of
\* the write names the fields of data that hold no map, or an empty one, by
\* their paths: such a field replaces what is stored at its path, a map with
\* fields is merged in the same way into the stored map of its name (and
\* replaces a stored value that is no map), and the stored fields that data
\* does not name stay.
RECURSIVE MergeMaps(_, _)
MergeMaps(stored, data) ==
    [name \in DOMAIN stored \cup DOMAIN data |->
        IF name \notin DOMAIN data THEN stored[name]
        ELSE IF name \notin DOMAIN stored THEN data[name]
        ELSE IF ~IsMap(data[name]) THEN data[name]
        ELSE IF DOMAIN data[name].o = {} THEN data[name]
        ELSE IF ~IsMap(stored[name]) THEN data[name]
        ELSE Obj(MergeMaps(stored[name].o, data[name].o))]

\* set(ref, data, {merge: true}) of a gamestats document.
MergeDoc(collection, path, data) ==
    IF ~Exists(collection, path) THEN SetDoc(collection, path, data)
    ELSE SetDoc(collection, path, MergeMaps(collection[path], data))

\* A response is valid when it has a body and its three parts are truthy.
ValidBody(apiBody) ==
    \A part \in {"playerStats", "teamStats", "DST"} : Truthy(Field(apiBody, part))

\* new Map(): playerPositionCache as the module creates it and as clear()
\* leaves it, the set of the player ids it has a position for. The block
\* that would fill it (statsSync.ts, line 88) is empty.
EmptyCache == {}

\* for (const playerId in apiBody.playerStats): the players of the response
\* whose statistics are stored, in the order of the loop: those with a
\* position in the cache and a truthy entry.
storedPlayers(apiBody, cache) ==
    SelectSeq(Field(apiBody, "playerStats").keys,
              LAMBDA playerId :
                  IF playerId \in cache
                  THEN Truthy(Field(apiBody, "playerStats").o[playerId]) ELSE FALSE)

\* apiFantasyPointsDefault: the three default scorings of the API, parsed;
\* 0 each when the player has none.
apiFantasyPointsDefault(rawStatsFromApi) ==
    Obj([standard |->
            safeParseFloat(Field(Field(rawStatsFromApi, "fantasyPointsDefault"), "standard")),
         ppr |-> safeParseFloat(Field(Field(rawStatsFromApi, "fantasyPointsDefault"), "PPR")),
         halfPpr |->
            safeParseFloat(Field(Field(rawStatsFromApi, "fantasyPointsDefault"), "halfPPR"))])

\* statsData of a player: the points the API calculated, as stored.
playerStatsData(rawStatsFromApi, gameId, week, season, now) ==
    [gameId |-> GameId(gameId), season |-> Num(season), week |-> Num(week),
     nflTeamId |-> Field(rawStatsFromApi, "teamID"),
     rawBoxScoreStats |-> rawStatsFromApi,
     fantasyPoints |-> safeParseFloat(Field(rawStatsFromApi, "fantasyPoints")),
     apiFantasyPointsDefault |-> apiFantasyPointsDefault(rawStatsFromApi),
     lastUpdated |-> Timestamp(now)]

\* teamStatsRaw?.teamID of a side.
teamIdOf(apiBody, loc) == Field(Field(Field(apiBody, "teamStats"), loc), "teamID")

\* for (const loc of ['home', 'away']): the sides of the response with a
\* truthy team id and truthy defense statistics, in the order of the loop.
storedSides(apiBody) ==
    SelectSeq(<<"home", "away">>,
              LAMBDA loc :
                  IF Truthy(teamIdOf(apiBody, loc))
                  THEN Truthy(Field(Field(apiBody, "DST"), loc)) ELSE FALSE)

\* teamDefData: the parsed defense statistics of the side, the
\* interceptions as defInt and the recovered fumbles as fumRec.
teamDefData(defStatsRaw) ==
    Obj([ptsAllowed |-> Num(safeParseInt(Field(defStatsRaw, "ptsAllowed"))),
         sacks |-> safeParseFloat(Field(defStatsRaw, "sacks")),
         defInt |-> Num(safeParseInt(Field(defStatsRaw, "defensiveInterceptions"))),
         fumRec |-> Num(safeParseInt(Field(defStatsRaw, "fumblesRecovered"))),
         safeties |-> Num(safeParseInt(Field(defStatsRaw, "safeties"))),
         defTD |-> Num(safeParseInt(Field(defStatsRaw, "defTD")))])

\* specialTeamsStats: the kicking and return totals of the team's players.
specialTeamsStats(aggKicking, aggReturns) ==
    Obj([xpMade |-> Field(aggKicking, "totalExtraPointsMade"),
         fgMade |-> Field(aggKicking, "totalFieldGoalsMade"),
         kickReturnTD |-> Field(aggReturns, "totalKickReturnTDs"),
         puntReturnTD |-> Field(aggReturns, "totalPuntReturnTDs"),
         fumbleReturnTD |-> Field(aggReturns, "totalFumbleReturnTDs"),
         xpReturn |-> Num(0)])

\* gameStatsForCalc: the aggregates of the team's players, each added up in
\* the order of the keys of apiBody.playerStats, and the defense statistics.
gameStatsForCalc(apiBody, loc) ==
    Obj([passingStats |->
            aggregatePassingStats(Field(apiBody, "playerStats"), teamIdOf(apiBody, loc)),
         rushingStats |->
            aggregateRushingStats(Field(apiBody, "playerStats"), teamIdOf(apiBody, loc)),
         teamDefData |-> teamDefData(Field(Field(apiBody, "DST"), loc)),
         specialTeamsStats |->
            specialTeamsStats(
                aggregateKickingStats(Field(apiBody, "playerStats"), teamIdOf(apiBody, loc)),
                aggregateSpecialTeamsReturnStats(Field(apiBody, "playerStats"),
                                                 teamIdOf(apiBody, loc)))])

\* statsData of a team for the stats of its game: the calculated points of
\* its four units.
teamStatsDataOf(stats, apiBody, loc, gameId, week, season, now) ==
    [gameId |-> GameId(gameId), season |-> Num(season), week |-> Num(week),
     rawTeamBoxScoreStats |-> Field(Field(apiBody, "teamStats"), loc),
     rawDefBoxScoreStats |-> Field(Field(apiBody, "DST"), loc),
     aggregatedStatsForCalc |-> stats,
     fantasyPointsPassing |-> Milli(calculatePassingOffensePoints(stats)),
     fantasyPointsRushing |-> Milli(calculateRushingOffensePoints(stats)),
     fantasyPointsDefense |-> Milli(calculateDefensePoints(stats)),
     fantasyPointsSpecialTeams |-> Milli(calculateSpecialTeamsPoints(stats)),
     lastUpdated |-> Timestamp(now)]

teamStatsData(apiBody, loc, gameId, week, season, now) ==
    teamStatsDataOf(gameStatsForCalc(apiBody, loc), apiBody, loc, gameId, week, season, now)

\* gameBatch.set(playerStatsRef, statsData, {merge: true}) for the players
\* stored, in the order of the loop, applied to the collection.
RECURSIVE setPlayerStats(_, _, _, _, _, _, _)
setPlayerStats(collection, players, apiBody, gameId, week, season, now) ==
    IF players = <<>> THEN collection
    ELSE setPlayerStats(
            MergeDoc(collection, <<"players", Head(players), gameId>>,
                     playerStatsData(Field(apiBody, "playerStats").o[Head(players)],
                                     gameId, week, season, now)),
            Tail(players), apiBody, gameId, week, season, now)

\* db.collection('teams').doc(teamId) names a document: the id is a string
\* and teams/<teamId> has an even number of segments.
IsTeamDocument(teamId) ==
    IF teamId.t # "string" THEN FALSE ELSE Len(PathParts(teamId.s)) % 2 = 1

\* gameBatch.set(teamStatsRef, statsData, {merge: true}) for the sides
\* stored, home before away, applied to the collection; none when
\* doc(teamId) throws for one of them.
RECURSIVE setTeamStats(_, _, _, _, _, _, _)
setTeamStats(collection, sides, apiBody, gameId, week, season, now) ==
    IF sides = <<>> THEN collection
    ELSE IF \E i \in DOMAIN sides : ~IsTeamDocument(teamIdOf(apiBody, sides[i])) THEN collection
    ELSE setTeamStats(
            MergeDoc(collection, <<"teams", teamIdOf(apiBody, Head(sides)).s, gameId>>,
                     teamStatsData(apiBody, Head(sides), gameId, week, season, now)),
            Tail(sides), apiBody, gameId, week, season, now)

\* Building the batch throws: a stored player without teamID makes its
\* statsData hold undefined, and doc(teamId) throws for a team id that
\* names no document. The exception is caught and the game is not stored.
BatchRefused(apiBody, cache) ==
    \/ \E playerId \in Range(storedPlayers(apiBody, cache)) :
           Field(Field(apiBody, "playerStats").o[playerId], "teamID").t = "undefined"
    \/ \E loc \in Range(storedSides(apiBody)) : ~IsTeamDocument(teamIdOf(apiBody, loc))

\* gameBatch.commit(): the documents of the game, written together; there
\* is no batch to commit when building it has thrown.
commitGameBatch(collection, apiBody, cache, gameId, week, season, now) ==
    IF BatchRefused(apiBody, cache) THEN collection
    ELSE setTeamStats(
            setPlayerStats(collection, storedPlayers(apiBody, cache), apiBody, gameId, week,
                           season, now),
            storedSides(apiBody), apiBody, gameId, week, season, now)

----------------------------------------------------------------------------
(* calculateWeeklyScores: the lineups of a week and the points of a pick.  *)

\* lineupQuery without the filter on the league.
lineupQueryAnyLeague(lineups, season, week, leagueId) ==
    {path \in DOMAIN lineups :
        /\ InWeeklyLineups(path)
        /\ lineups[path].season = season
        /\ lineups[path].week = week}

\* lineupQuery: the rows of the season and week, and when leagueId is truthy
\* those whose leagueId equals it, which no row does when it is not a
\* string.
lineupQuery(lineups, season, week, leagueId) ==
    {path \in DOMAIN lineups :
        /\ InWeeklyLineups(path)
        /\ lineups[path].season = season
        /\ lineups[path].week = week
        /\ IF ~Truthy(leagueId) THEN TRUE
           ELSE IF leagueId.t = "string" THEN lineups[path].leagueId = leagueId.s
           ELSE FALSE}

\* gameStatsQuery without the filter on the week.
gameStatsQueryAnyWeek(stats, collectionName, entityId, season, week) ==
    {path \in DOMAIN stats :
        /\ path[1] = collectionName
        /\ path[2] = entityId
        /\ stats[path].season = Num(season)}

\* gameStatsQuery: the gamestats documents of the entity for the week and
\* season.
gameStatsQuery(stats, collectionName, entityId, season, week) ==
    {path \in DOMAIN stats :
        /\ path[1] = collectionName
        /\ path[2] = entityId
        /\ stats[path].week = Num(week)
        /\ stats[path].season = Num(season)}

\* limit(1): the first document in the order of the document ids.
FirstDoc(paths) == CHOOSE path \in paths : \A other \in paths : path[3] <= other[3]

\* statData[field] ?? 0 of the data of a document, in thousandths.
PointsField(statData, name) ==
    IF name \notin DOMAIN statData THEN 0
    ELSE IF statData[name].t \in {"undefined", "null"} THEN 0
    ELSE statData[name].milli

\* The points of one slot when its lookup succeeds: 0 without a gamestats
\* document; the player's fantasyPoints for a player pick; for a team pick
\* the field of the slot, and 0 in a slot that is not a team unit.
pointsOfPick(stats, position, pick, season, week) ==
    LET collectionName == IF pick.type = "player" THEN "players" ELSE "teams"
        found == gameStatsQuery(stats, collectionName, pick.id, season, week)
    IN  IF found = {} THEN 0
        ELSE IF pick.type = "player" THEN PointsField(stats[FirstDoc(found)], "fantasyPoints")
        ELSE IF position = "PassingOffense"
             THEN PointsField(stats[FirstDoc(found)], "fantasyPointsPassing")
        ELSE IF position = "RushingOffense"
             THEN PointsField(stats[FirstDoc(found)], "fantasyPointsRushing")
        ELSE IF position = "Defense"
             THEN PointsField(stats[FirstDoc(found)], "fantasyPointsDefense")
        ELSE IF position = "SpecialTeams"
             THEN PointsField(stats[FirstDoc(found)], "fantasyPointsSpecialTeams")
        ELSE 0

\* What a lookup that raises no error returns for its slot.
lookupResult(stats, position, pick, season, week) ==
    [st |-> "resolved", points |-> pointsOfPick(stats, position, pick, season, week)]

\* const batchSize = 200
batchSize == 200

----------------------------------------------------------------------------
(* The inputs of the model.                                                *)

PlayerP1 == Pick(Str("P1"), Str("player"))
PlayerP2 == Pick(Str("P2"), Str("player"))
TeamT1 == Pick(Str("T1"), Str("team"))

\* The picks objects of the clients, each with its positions in the order
\* the client created them: one position, two positions, the same player in
\* two positions, the seven positions other than QB, all eight positions
\* from the last to the first, and a team at QB.
picksQB == OrderedObj(<<"QB">>, [QB |-> PlayerP1])
picksQB2 == OrderedObj(<<"QB">>, [QB |-> PlayerP2])
picksQBRB == OrderedObj(<<"QB", "RB">>, [QB |-> PlayerP1, RB |-> PlayerP2])
picksSamePlayer == OrderedObj(<<"RB", "QB">>, [QB |-> PlayerP1, RB |-> PlayerP1])
picksSeven ==
    OrderedObj(<<"RB", "WR", "TE", "PassingOffense", "RushingOffense", "Defense", "SpecialTeams">>,
        [RB |-> PlayerP2, WR |-> PlayerP2, TE |-> PlayerP2,
         PassingOffense |-> TeamT1, RushingOffense |-> TeamT1,
         Defense |-> TeamT1, SpecialTeams |-> TeamT1])
picksEight ==
    OrderedObj(<<"SpecialTeams", "Defense", "RushingOffense", "PassingOffense",
                 "TE", "WR", "RB", "QB">>,
        [QB |-> PlayerP1, RB |-> PlayerP2, WR |-> PlayerP2, TE |-> PlayerP2,
         PassingOffense |-> TeamT1, RushingOffense |-> TeamT1,
         Defense |-> TeamT1, SpecialTeams |-> TeamT1])

picksTeamAtQB == OrderedObj(<<"QB">>, [QB |-> TeamT1])

ValidPicks == {picksQB, picksQBRB, picksSamePlayer, picksSeven, picksEight, picksTeamAtQB}

\* Malformed picks: no position, an unknown position, a type that is neither
\* player nor team, an id that is not a string, and null.
InvalidPicks ==
    {OrderedObj(<<>>, [pos \in {} |-> PlayerP1]),
     OrderedObj(<<"K">>, [K |-> PlayerP1]),
     OrderedObj(<<"QB">>, [QB |-> Pick(Str("P1"), Str("coach"))]),
     OrderedObj(<<"QB">>, [QB |-> Pick(Num(7), Str("player"))]),
     Null}

Data(leagueId, week, picks) == [leagueId |-> leagueId, week |-> week, picks |-> picks]
Request(auth, data) == [auth |-> auth, data |-> data]

\* The requests of user u1 for week 1 of league L1 that pass validation.
ValidRequests ==
    {Request(Str("u1"), Data(Str("L1"), Num(1), picks)) : picks \in ValidPicks}

\* Requests with one fault each: no authenticated user, an empty league id,
\* a week below 1, a week above 18, a week that is not a number, bad picks.
InvalidRequests ==
    {Request(Undefined, Data(Str("L1"), Num(1), picksQB)),
     Request(Str("u1"), Data(Str(""), Num(1), picksQB)),
     Request(Str("u1"), Data(Str("L1"), Num(0), picksQB)),
     Request(Str("u1"), Data(Str("L1"), Num(MAX_NFL_WEEKS + 1), picksQB)),
     Request(Str("u1"), Data(Str("L1"), Str("1"), picksQB))}
    \cup {Request(Str("u1"), Data(Str("L1"), Num(1), picks)) : picks \in InvalidPicks}

\* Games of a stored schedule, by their gameTimeEpoch as the API sends it.
Game(gameTimeEpoch) == [gameTimeEpoch |-> gameTimeEpoch]

GameLists ==
    {<<Game(Chars(<<"2">>))>>,
     <<Game(Chars(<<"\r", "2", ".", "0">>)), Game(Chars(<<"1">>))>>,
     <<Game(Undefined), Game(Chars(<<"2">>))>>,
     <<Game(Undefined), Game(Chars(<<"T", "B", "D">>))>>}

SyncedWeeks == {1}
SyncedSeasons == {currentSeason, currentSeason - 1}

\* The lists the sync fetches for a season: every list and the empty one for
\* the current season, one list for the season before.
SyncedGameLists(season) ==
    IF season = currentSeason THEN GameLists \cup {<<>>} ELSE {<<Game(Chars(<<"2">>))>>}

\* Picks for the scoring runs: the defense of a team and a player, and a
\* player with two other units of a team.
picksQBDefense == OrderedObj(<<"Defense", "QB">>, [QB |-> PlayerP1, Defense |-> TeamT1])
picksWRUnits ==
    OrderedObj(<<"WR", "RushingOffense", "SpecialTeams">>,
        [WR |-> PlayerP2, RushingOffense |-> TeamT1, SpecialTeams |-> TeamT1])

\* The raw statistics of the players of a box score: the quarterback P1 and
\* the kicker K1 of team T1, the running back P2 of team T2 with the given
\* fantasyPoints.
RawP1 ==
    Obj([teamID |-> Str("T1"),
         fantasyPoints |-> Chars(<<"1", "2", ".", "3", "4", "6">>),
         Passing |-> Obj([passYds |-> Chars(<<"2", "5", "1">>), passTD |-> Chars(<<"2">>),
                          int |-> Chars(<<"1">>)]),
         Rushing |-> Obj([rushYds |-> Chars(<<"1", "2">>), rushTD |-> Chars(<<"0">>)])])
RawP2With(fantasyPoints) ==
    Obj([teamID |-> Str("T2"),
         fantasyPoints |-> fantasyPoints,
         Rushing |-> Obj([rushYds |-> Chars(<<"8", "3", ".", "5">>), rushTD |-> Chars(<<"1">>)])])
RawP2 == RawP2With(Chars(<<"7", ".", "1", "2", "3">>))
RawK1 ==
    Obj([teamID |-> Str("T1"),
         Kicking |-> Obj([xpMade |-> Chars(<<"2">>), fgMade |-> Chars(<<"1">>),
                          kickReturnTD |-> Chars(<<"1">>)]),
         Punting |-> Obj([puntReturnTD |-> Chars(<<"0">>)]),
         Defense |-> Obj([fumRetTD |-> Chars(<<"1">>)])])

\* apiBody.playerStats in the order of its keys: all three players, the
\* game without P1, P2 alone, and all three with null for P1.
AllPlayers == OrderedObj(<<"P1", "P2", "K1">>, [P1 |-> RawP1, P2 |-> RawP2, K1 |-> RawK1])
WithoutP1 == OrderedObj(<<"P2", "K1">>, [P2 |-> RawP2, K1 |-> RawK1])
OnlyP2 == OrderedObj(<<"P2">>, [P2 |-> RawP2])
NullP1 == OrderedObj(<<"P1", "P2", "K1">>, [P1 |-> Null, P2 |-> RawP2, K1 |-> RawK1])

\* The players of a game: all three, or the game without P1.
PlayerStatsInputs == {AllPlayers, WithoutP1}

\* The raw defense statistics of a side, as the API sends them.
RawDST(ptsAllowed, sacks, defensiveInterceptions, fumblesRecovered, safeties, defTD) ==
    Obj([ptsAllowed |-> ptsAllowed, sacks |-> sacks,
         defensiveInterceptions |-> defensiveInterceptions,
         fumblesRecovered |-> fumblesRecovered,
         safeties |-> safeties, defTD |-> defTD])

Zero == Chars(<<"0">>)
One == Chars(<<"1">>)

\* Points allowed on both sides of every tier boundary, whole and half
\* sacks and sacks that end on half a cent, and none or one of every
\* counted play.
DSTInputs ==
    {RawDST(ptsAllowed, sacks, defensiveInterceptions, fumblesRecovered, safeties, defTD) :
        ptsAllowed \in {Zero, One, Chars(<<"2">>), Chars(<<"9">>), Chars(<<"1", "0">>),
                        Chars(<<"2", "0">>), Chars(<<"2", "1">>)},
        sacks \in {Zero, Chars(<<"3">>), Chars(<<"2", ".", "5">>),
                   Chars(<<"1", ".", "0", "2", "5">>)},
        defensiveInterceptions \in {Zero, One},
        fumblesRecovered \in {Zero, One},
        safeties \in {Zero, One},
        defTD \in {Zero, One}}

\* The statistics of week 1: a shutout of T1 with three sacks and one
\* interception.
ShutoutDST == RawDST(Zero, Chars(<<"3">>), One, Zero, Zero, Zero)

\* The defense statistics of the other side of the game.
AwayDST == RawDST(Chars(<<"2", "1">>), Zero, Zero, Zero, Zero, Zero)

\* teamStats of a side: the team id.
TeamOf(teamID) == Obj([teamID |-> teamID])
HomeT1 == Obj([home |-> TeamOf(Str("T1"))])
HomeT1AwayT2 == Obj([home |-> TeamOf(Str("T1")), away |-> TeamOf(Str("T2"))])

\* The body of a getNFLBoxScore response of a game of T1 (home) and T2.
BoxScoreBody(playerStats, homeDST) ==
    Obj([playerStats |-> playerStats,
         teamStats |-> HomeT1AwayT2,
         DST |-> Obj([home |-> homeDST, away |-> AwayDST])])

\* The bodies the stats sync receives for a game: all players with every
\* defense statistics, and the shutout with either set of players; a
\* response without body, bodies that
\* lack a part or have null for it, a body whose player P1 is null, one
\* whose home side has no defense statistics, one whose away side is null
\* and one whose home team id is a number.
BoxScoreBodies ==
    {BoxScoreBody(AllPlayers, homeDST) : homeDST \in DSTInputs}
    \cup {BoxScoreBody(playerStats, ShutoutDST) : playerStats \in PlayerStatsInputs}
    \cup {Undefined,
          Obj([playerStats |-> OnlyP2, teamStats |-> HomeT1]),
          Obj([playerStats |-> Null, teamStats |-> HomeT1,
               DST |-> Obj([home |-> ShutoutDST])]),
          Obj([playerStats |-> NullP1, teamStats |-> HomeT1AwayT2,
               DST |-> Obj([home |-> ShutoutDST, away |-> AwayDST])]),
          Obj([playerStats |-> OnlyP2, teamStats |-> HomeT1AwayT2,
               DST |-> Obj([home |-> Null, away |-> AwayDST])]),
          Obj([playerStats |-> OnlyP2,
               teamStats |-> Obj([home |-> TeamOf(Str("T1")), away |-> Null]),
               DST |-> Obj([home |-> ShutoutDST, away |-> AwayDST])]),
          Obj([playerStats |-> OnlyP2,
               teamStats |-> Obj([home |-> TeamOf(Num(1))]),
               DST |-> Obj([home |-> ShutoutDST])]),
          Obj([playerStats |-> OnlyP2,
               teamStats |-> Obj([home |-> TeamOf(Str("T/1"))]),
               DST |-> Obj([home |-> ShutoutDST])])}

\* The bodies of the games after the first of a call: the shutout; a body
\* of the home side alone whose defense statistics name the points allowed
\* only and whose team statistics name the points of the team; a body
\* without defense statistics; and one whose defense statistics are an
\* empty map.
LaterBodies ==
    {BoxScoreBody(AllPlayers, ShutoutDST),
     Obj([playerStats |-> OnlyP2,
          teamStats |-> Obj([home |-> Obj([teamID |-> Str("T1"), teamPts |-> Chars(<<"7">>)])]),
          DST |-> Obj([home |-> Obj([ptsAllowed |-> Chars(<<"9">>)])])]),
     Obj([playerStats |-> OnlyP2, teamStats |-> HomeT1]),
     Obj([playerStats |-> OnlyP2, teamStats |-> HomeT1,
          DST |-> Obj([home |-> EmptyMap])])}

\* The calls of manualFetchAndProcessGameStatsForWeek: by an admin for week
\* 1, by someone else, and for a week that is out of range or no number.
StatsRequests ==
    {[admin |-> TRUE, week |-> Num(1)],
     [admin |-> FALSE, week |-> Num(1)],
     [admin |-> TRUE, week |-> Num(MAX_NFL_WEEKS + 1)],
     [admin |-> TRUE, week |-> Str("1")]}

\* The answers of getNFLGamesForWeek: no array; no game; a game without id;
\* one game; two games; the same game twice.
GamesForWeekResponses ==
    {[isArray |-> FALSE, body |-> <<>>],
     [isArray |-> TRUE, body |-> <<>>],
     [isArray |-> TRUE, body |-> <<0>>],
     [isArray |-> TRUE, body |-> <<1>>],
     [isArray |-> TRUE, body |-> <<1, 2>>],
     [isArray |-> TRUE, body |-> <<1, 1>>]}

\* The players with a position in the cache of the deployment that wrote
\* the player documents the scoring runs read. The stats sync as it stands
\* writes none (its cache stays empty); the documents have the fields of
\* its statsData.
RelevantPlayers == {"P1", "P2"}

\* The box score of game 1 with all players, in which the fantasyPoints of
\* P2 are 7.165, which ends on half a cent.
HalfCentBody ==
    BoxScoreBody(
        OrderedObj(<<"P1", "P2", "K1">>,
            [P1 |-> RawP1, P2 |-> RawP2With(Chars(<<"7", ".", "1", "6", "5">>)), K1 |-> RawK1]),
        ShutoutDST)

\* The stored statistics of game 1 of week 1 with all players.
WeekOneStats ==
    commitGameBatch(EmptyCollection, HalfCentBody, RelevantPlayers, 1, 1, currentSeason, 0)

\* The stored statistics the scoring runs read: those of game 1 of week 1
\* with all players; and those of game 1 of week 1, in which P1 did not
\* play, and of game 2 of week 2, in which he did.
GameStatsInputs ==
    {WeekOneStats,
     commitGameBatch(
        commitGameBatch(EmptyCollection, BoxScoreBody(WithoutP1, ShutoutDST),
            RelevantPlayers, 1, 1, currentSeason, 0),
        BoxScoreBody(AllPlayers, AwayDST),
        RelevantPlayers, 2, 2, currentSeason, 0)}

\* The arguments of calculateWeeklyScores.
ScoreRequest(week, season, leagueId) == [week |-> week, season |-> season, leagueId |-> leagueId]

\* Week 1 for all leagues, for league L1, for a league without lineups, for
\* a past season, and a week out of range.
ScoreRequests ==
    {ScoreRequest(Num(1), Undefined, Undefined),
     ScoreRequest(Num(1), Undefined, Str("L1")),
     ScoreRequest(Num(1), Undefined, Str("L9")),
     ScoreRequest(Num(1), Num(currentSeason - 1), Undefined),
     ScoreRequest(Num(MAX_NFL_WEEKS + 1), Undefined, Undefined)}

----------------------------------------------------------------------------
(* The state machine.                                                      *)

Calls == 1 .. NumCalls

NoResult == [code |-> "", message |-> ""]
NoData == Data(Str(""), Num(0), Null)

\* A call slot before its first invocation.
IdleCall ==
    [pc |-> "idle", auth |-> Undefined, data |-> NoData,
     usageDocs |-> EmptyCollection, now |-> 0, result |-> NoResult]

\* The call slots of the league functions, and a slot before its first
\* invocation.
LeagueCalls == 1 .. NumLeagueCalls
IdleLeagueCall ==
    [pc |-> "idle", fn |-> "", auth |-> Undefined, data |-> Undefined, leagueRef |-> "",
     read |-> Undefined, result |-> [code |-> ""]]

\* No stats sync is running.
NoStatsResult == [code |-> "", success |-> FALSE]
NoBoxScore ==
    [pc |-> "none", week |-> 0, season |-> 0, cache |-> EmptyCache, gameIDs |-> <<>>,
     body |-> Null, now |-> 0, successCount |-> 0, failureCount |-> 0,
     result |-> NoStatsResult]

NoRunResult == [code |-> "", success |-> FALSE, message |-> "", processedCount |-> 0, errorCount |-> 0]

\* The order in which the store lists the fields of a picks map that it
\* returns, which the source does not fix. It is the store's, the same at
\* every read: the order of validPositions, or the order of the names.
AlphabeticalPositions ==
    <<"Defense", "PassingOffense", "QB", "RB", "RushingOffense", "SpecialTeams", "TE", "WR">>
FieldOrders == {validPositions, AlphabeticalPositions}

\* What the properties need to know about the run before this one when it
\* had the same arguments: the lineups it scored and the number of
\* commits of the stats sync when it was called.
NoFirstRun == [scored |-> {}, commits |-> 0 - 1]

\* calculateWeeklyScores before its first invocation. The run keeps the
\* order of the store with it, and for the properties whether it repeats
\* the run before it (rerun, first), the lineups it has scored and the
\* number of commits of the stats sync when it was called.
IdleRun ==
    [pc |-> "idle", request |-> ScoreRequest(Num(0), Undefined, Undefined), rerun |-> FALSE,
     week |-> 0, season |-> 0, docs |-> <<>>, tasks |-> <<>>,
     processedCount |-> 0, errorCount |-> 0, result |-> NoRunResult,
     fieldOrder |-> validPositions, scored |-> {}, commits |-> 0, first |-> NoFirstRun]

\* storeWeeklyGamesInFirestore is not running.
NoScheduleWrite == [pc |-> "idle", weekDocRef |-> <<>>, dataToStore |-> Null]

\* The rows of the schedule collection the deployment starts with: none, or
\* a row of week 1 whose list of games is empty.
InitialSchedules ==
    {EmptyCollection,
     SetDoc(EmptyCollection, scheduleDocId(1),
            [season |-> currentSeason, week |-> 1, games |-> <<>>, lastUpdated |-> 0])}

Init ==
    /\ clock = 0
    /\ scheduleWrite = NoScheduleWrite
    /\ nfl_schedules \in InitialSchedules
    /\ weeklyLineups = EmptyCollection
    /\ usageCounts = EmptyCollection
    /\ calls = [c \in Calls |-> IdleCall]
    /\ gamestats = EmptyCollection
    /\ boxScore = NoBoxScore
    /\ run = IdleRun
    /\ leagues = EmptyCollection
    /\ leagueCalls = [c \in LeagueCalls |-> IdleLeagueCall]

\* The call returns (or throws) result; the slot keeps the request and the
\* response until its next invocation.
Return(c, result) ==
    calls' = [calls EXCEPT ![c].pc = "done",
                           ![c].usageDocs = EmptyCollection,
                           ![c].now = 0,
                           ![c].result = result]

\* Time passes.
Tick ==
    /\ clock < MaxClock
    /\ clock' = clock + 1
    /\ UNCHANGED <<nfl_schedules, scheduleWrite, weeklyLineups, usageCounts, calls>>
    /\ UNCHANGED scoringVars
    /\ UNCHANGED leagueVars

\* scheduleSync.ts, storeWeeklyGamesInFirestore up to await
\* weekDocRef.set(dataToStore): with an empty list it returns and nothing is
\* stored; otherwise dataToStore is built, lastUpdated being Timestamp.now(),
\* and sent.
storeWeeklyGamesInFirestore(games, week, season) ==
    /\ scheduleWrite.pc = "idle"
    /\ IF Len(games) = 0
       THEN UNCHANGED scheduleWrite
       ELSE scheduleWrite' =
                [pc |-> "set", weekDocRef |-> weekDocRef(season, week),
                 dataToStore |-> [season |-> season, week |-> week, games |-> games,
                                  lastUpdated |-> clock]]
    /\ UNCHANGED <<clock, nfl_schedules, weeklyLineups, usageCounts, calls>>
    /\ UNCHANGED scoringVars
    /\ UNCHANGED leagueVars

\* weekDocRef.set(dataToStore) is applied: the row of the week is replaced.
ScheduleSetResolves ==
    /\ scheduleWrite.pc = "set"
    /\ nfl_schedules' = SetDoc(nfl_schedules, scheduleWrite.weekDocRef,
                               scheduleWrite.dataToStore)
    /\ scheduleWrite' = NoScheduleWrite
    /\ UNCHANGED <<clock, weeklyLineups, usageCounts, calls>>
    /\ UNCHANGED scoringVars
    /\ UNCHANGED leagueVars

\* weekDocRef.set(dataToStore) is rejected: the catch throws the error again
\* and the stored rows stay.
ScheduleSetFails ==
    /\ scheduleWrite.pc = "set"
    /\ scheduleWrite' = NoScheduleWrite
    /\ UNCHANGED <<clock, nfl_schedules, weeklyLineups, usageCounts, calls>>
    /\ UNCHANGED scoringVars
    /\ UNCHANGED leagueVars

\* saveWeeklyLineup up to its first await: authentication and validation.
saveWeeklyLineup(c, request) ==
    /\ calls[c].pc \in {"idle", "done"}
    /\ calls' = [calls EXCEPT ![c] =
            [pc |-> IF ValidationError(request.auth, request.data) # ""
                    THEN "done" ELSE "deadline",
             auth |-> request.auth, data |-> request.data,
             usageDocs |-> EmptyCollection, now |-> 0,
             result |-> [code |-> ValidationError(request.auth, request.data),
                         message |-> ""]]]
    /\ UNCHANGED <<clock, nfl_schedules, scheduleWrite, weeklyLineups, usageCounts>>
    /\ UNCHANGED scoringVars
    /\ UNCHANGED leagueVars

\* The schedule row arrives and the deadline is checked against Date.now();
\* then the reference of the lineup is built, which throws outside every
\* try block when lineupDocId does not name a document.
DeadlineCheck(c) ==
    /\ calls[c].pc = "deadline"
    /\ LET error == DeadlineError(nfl_schedules, calls[c].data.week.n, clock)
       IN  IF error.code # ""
           THEN Return(c, error)
           ELSE IF ~IsLineupDocument(calls[c].data.leagueId.s)
           THEN Return(c, [code |-> "internal", message |-> "INTERNAL"])
           ELSE calls' = [calls EXCEPT ![c].pc = "transaction"]
    /\ UNCHANGED <<clock, nfl_schedules, scheduleWrite, weeklyLineups, usageCounts>>
    /\ UNCHANGED scoringVars
    /\ UNCHANGED leagueVars

\* scheduleDocRef.get() fails: the catch block reports 'internal'.
ScheduleReadFails(c) ==
    /\ calls[c].pc = "deadline"
    /\ Return(c, [code |-> "internal", message |-> "Could not verify lineup deadline."])
    /\ UNCHANGED <<clock, nfl_schedules, scheduleWrite, weeklyLineups, usageCounts>>
    /\ UNCHANGED scoringVars
    /\ UNCHANGED leagueVars

\* The transaction function starts: it takes Timestamp.now() and builds the
\* references of the usage documents, which throws inside the try block
\* when one of the paths does not name a document; then it waits for
\* transaction.getAll.
TransactionBegin(c) ==
    /\ calls[c].pc = "transaction"
    /\ IF \E i \in DOMAIN entityIdsToUpdate(calls[c].data.picks) :
              ~IsUsageDocument(calls[c].data.leagueId.s,
                               entityIdsToUpdate(calls[c].data.picks)[i])
       THEN Return(c, [code |-> "internal",
                       message |-> "Failed to save lineup due to a server error."])
       ELSE calls' = [calls EXCEPT ![c].pc = "getAll", ![c].now = clock]
    /\ UNCHANGED <<clock, nfl_schedules, scheduleWrite, weeklyLineups, usageCounts>>
    /\ UNCHANGED scoringVars
    /\ UNCHANGED leagueVars

\* transaction.getAll returns the usage documents of the picks: the function
\* throws when currentUsages holds the cap for one of the entities; otherwise
\* its writes are buffered until the commit.
TransactionRead(c) ==
    /\ calls[c].pc = "getAll"
    /\ IF UsageLimitReached(currentUsages(usageCounts, calls[c].auth.s,
                                          calls[c].data.leagueId.s, calls[c].data.picks),
                            calls[c].data.picks)
       THEN Return(c, [code |-> "failed-precondition", message |-> "Usage limit reached"])
       ELSE calls' = [calls EXCEPT
                ![c].pc = "commit",
                ![c].usageDocs = usageDocs(usageCounts, calls[c].auth.s,
                                           calls[c].data.leagueId.s, calls[c].data.picks)]
    /\ UNCHANGED <<clock, nfl_schedules, scheduleWrite, weeklyLineups, usageCounts>>
    /\ UNCHANGED scoringVars
    /\ UNCHANGED leagueVars

\* Every document the transaction read is as it read it.
ReadsCurrent(c) ==
    calls[c].usageDocs = usageDocs(usageCounts, calls[c].auth.s,
                                   calls[c].data.leagueId.s, calls[c].data.picks)

\* CommitWrites without the transaction: the counter writes land, the
\* lineup write does not.
CommitWritesCountersOnly(c) ==
    /\ weeklyLineups' = weeklyLineups
    /\ usageCounts' =
           IncrementAll(usageCounts, calls[c].auth.s, calls[c].data.leagueId.s,
                        entityIdsToUpdate(calls[c].data.picks))

\* CommitWrites that gives back one use of every entity that the stored row
\* picks in a position for which the submission names another entity.
CommitWritesReleasing(c) ==
    LET path == lineupDocRef(calls[c].auth.s, calls[c].data.leagueId.s, calls[c].data.week.n)
        submitted == lineupPicksWithTimestamp(calls[c].data.picks, calls[c].now)
        replaced ==
            IF ~Exists(weeklyLineups, path) THEN {}
            ELSE {usageDocRef(calls[c].auth.s, calls[c].data.leagueId.s,
                              <<weeklyLineups[path].picks[pos].type,
                                weeklyLineups[path].picks[pos].id>>) :
                    pos \in {q \in DOMAIN weeklyLineups[path].picks \cap DOMAIN submitted :
                                weeklyLineups[path].picks[q].id # submitted[q].id}}
        incremented == IncrementAll(usageCounts, calls[c].auth.s, calls[c].data.leagueId.s,
                                    entityIdsToUpdate(calls[c].data.picks))
    IN  /\ weeklyLineups' =
               MergeLineup(weeklyLineups, path,
                   lineupData(calls[c].auth.s, calls[c].data.leagueId.s, calls[c].data.week.n,
                              calls[c].data.picks, calls[c].now))
        /\ usageCounts' =
               [p \in DOMAIN incremented |->
                   IF p \in replaced
                   THEN [incremented[p] EXCEPT !.count = @ - 1]
                   ELSE incremented[p]]

\* The buffered writes of the transaction, applied to the two collections
\* in one step: the lineup row, then one increment per entityIdsToUpdate entry.
CommitWrites(c) ==
    /\ weeklyLineups' =
           MergeLineup(weeklyLineups,
               lineupDocRef(calls[c].auth.s, calls[c].data.leagueId.s, calls[c].data.week.n),
               lineupData(calls[c].auth.s, calls[c].data.leagueId.s, calls[c].data.week.n,
                          calls[c].data.picks, calls[c].now))
    /\ usageCounts' =
           IncrementAll(usageCounts, calls[c].auth.s, calls[c].data.leagueId.s,
                        entityIdsToUpdate(calls[c].data.picks))

\* The transaction commits: no document it read has changed since.
TransactionCommit(c) ==
    /\ calls[c].pc = "commit"
    /\ ReadsCurrent(c)
    /\ CommitWrites(c)
    /\ Return(c, [code |-> "ok", message |-> "Lineup saved successfully!"])
    /\ UNCHANGED <<clock, nfl_schedules, scheduleWrite>>
    /\ UNCHANGED scoringVars
    /\ UNCHANGED leagueVars

\* A document the transaction read was written by another transaction: the
\* commit is aborted and runTransaction runs the function again.
TransactionRetry(c) ==
    /\ calls[c].pc = "commit"
    /\ ~ReadsCurrent(c)
    /\ calls' = [calls EXCEPT ![c].pc = "transaction",
                              ![c].usageDocs = EmptyCollection,
                              ![c].now = 0]
    /\ UNCHANGED <<clock, nfl_schedules, scheduleWrite, weeklyLineups, usageCounts>>
    /\ UNCHANGED scoringVars
    /\ UNCHANGED leagueVars

\* The transaction fails (a read or the commit is refused, or the attempts
\* are used up): nothing is written and the catch block reports 'internal'.
TransactionFails(c) ==
    /\ calls[c].pc \in {"transaction", "getAll", "commit"}
    /\ Return(c, [code |-> "internal", message |-> "Failed to save lineup due to a server error."])
    /\ UNCHANGED <<clock, nfl_schedules, scheduleWrite, weeklyLineups, usageCounts>>
    /\ UNCHANGED scoringVars
    /\ UNCHANGED leagueVars

\* One invocation at a time over an open week, with every valid request and
\* no clock: the picks of the saves follow one another in the stored row.
InitPicks ==
    /\ clock = 0
    /\ scheduleWrite = NoScheduleWrite
    /\ nfl_schedules =
           SetDoc(EmptyCollection, scheduleDocId(1),
                  [season |-> currentSeason, week |-> 1,
                   games |-> <<Game(Chars(<<"2">>))>>, lastUpdated |-> 0])
    /\ weeklyLineups = EmptyCollection
    /\ usageCounts = EmptyCollection
    /\ calls = [c \in Calls |-> IdleCall]
    /\ gamestats = EmptyCollection
    /\ boxScore = NoBoxScore
    /\ run = IdleRun
    /\ leagues = EmptyCollection
    /\ leagueCalls = [c \in LeagueCalls |-> IdleLeagueCall]

NextPicks ==
    \/ \E request \in ValidRequests : saveWeeklyLineup(1, request)
    \/ DeadlineCheck(1)
    \/ TransactionBegin(1)
    \/ TransactionRead(1)
    \/ TransactionCommit(1)
    \/ TransactionFails(1)

SpecPicks == InitPicks /\ [][NextPicks]_vars

\* The requests of the deadline check: one that passes validation and every
\* request with a fault.
DeadlineRequests ==
    {Request(Str("u1"), Data(Str("L1"), Num(1), picksQB))} \cup InvalidRequests

\* One invocation at a time, with every kind of request, the clock and the
\* schedule sync.
Next ==
    \/ Tick
    \/ \E week \in SyncedWeeks, season \in SyncedSeasons :
           \E games \in SyncedGameLists(season) :
               storeWeeklyGamesInFirestore(games, week, season)
    \/ ScheduleSetResolves
    \/ ScheduleSetFails
    \/ \E request \in DeadlineRequests : saveWeeklyLineup(1, request)
    \/ DeadlineCheck(1)
    \/ ScheduleReadFails(1)
    \/ TransactionBegin(1)
    \/ TransactionRead(1)
    \/ TransactionCommit(1)
    \/ TransactionFails(1)

Spec == Init /\ [][Next]_vars

\* Racing invocations of one user for one week, before the kickoff of the
\* only game of the week.
RaceRequests ==
    {Request(Str("u1"), Data(Str("L1"), Num(1), picks)) :
        picks \in {picksQB, picksQBRB, picksSamePlayer}}

InitRace ==
    /\ clock = 0
    /\ scheduleWrite = NoScheduleWrite
    /\ nfl_schedules =
           SetDoc(EmptyCollection, scheduleDocId(1),
                  [season |-> currentSeason, week |-> 1,
                   games |-> <<Game(Chars(<<"2">>))>>, lastUpdated |-> 0])
    /\ weeklyLineups = EmptyCollection
    /\ usageCounts = EmptyCollection
    /\ calls = [c \in Calls |-> IdleCall]
    /\ gamestats = EmptyCollection
    /\ boxScore = NoBoxScore
    /\ run = IdleRun
    /\ leagues = EmptyCollection
    /\ leagueCalls = [c \in LeagueCalls |-> IdleLeagueCall]

NextRace ==
    \/ \E c \in Calls, request \in RaceRequests : saveWeeklyLineup(c, request)
    \/ \E c \in Calls : DeadlineCheck(c)
    \/ \E c \in Calls : TransactionBegin(c)
    \/ \E c \in Calls : TransactionRead(c)
    \/ \E c \in Calls : TransactionCommit(c)
    \/ \E c \in Calls : TransactionRetry(c)
    \/ \E c \in Calls : TransactionFails(c)

SpecRace == InitRace /\ [][NextRace]_vars

\* Two invocations in flight, of two users, in two leagues, for several
\* weeks, all before the kickoff: the first one is of user u1 for week 1 of
\* league L1 or L2, or for week 3, which has no schedule row; the second one
\* is of user u2 for week 1 of league L1, or of user u1 for week 2 of league
\* L1. All of them pick the player P1, but for one of week 2, which picks
\* the player P2.
FrameRequests ==
    [c \in Calls |->
        IF c = 1
        THEN {Request(Str("u1"), Data(Str("L1"), Num(1), picksQB)),
              Request(Str("u1"), Data(Str("L2"), Num(1), picksQB)),
              Request(Str("u1"), Data(Str("L1"), Num(3), picksQB))}
        ELSE IF c = 2
        THEN {Request(Str("u2"), Data(Str("L1"), Num(1), picksQB)),
              Request(Str("u1"), Data(Str("L1"), Num(2), picksQB)),
              Request(Str("u1"), Data(Str("L1"), Num(2), picksQB2))}
        ELSE {}]

InitFrame ==
    /\ clock = 0
    /\ scheduleWrite = NoScheduleWrite
    /\ nfl_schedules =
           SetDoc(SetDoc(EmptyCollection, scheduleDocId(1),
                         [season |-> currentSeason, week |-> 1,
                          games |-> <<Game(Chars(<<"2">>))>>, lastUpdated |-> 0]),
                  scheduleDocId(2),
                  [season |-> currentSeason, week |-> 2,
                   games |-> <<Game(Chars(<<"2">>))>>, lastUpdated |-> 0])
    /\ weeklyLineups = EmptyCollection
    /\ usageCounts = EmptyCollection
    /\ calls = [c \in Calls |-> IdleCall]
    /\ gamestats = EmptyCollection
    /\ boxScore = NoBoxScore
    /\ run = IdleRun
    /\ leagues = EmptyCollection
    /\ leagueCalls = [c \in LeagueCalls |-> IdleLeagueCall]

NextFrame ==
    \/ \E c \in Calls : \E request \in FrameRequests[c] : saveWeeklyLineup(c, request)
    \/ \E c \in Calls : DeadlineCheck(c)
    \/ \E c \in Calls : TransactionBegin(c)
    \/ \E c \in Calls : TransactionRead(c)
    \/ \E c \in Calls : TransactionCommit(c)
    \/ \E c \in Calls : TransactionRetry(c)
    \/ \E c \in Calls : TransactionFails(c)

SpecFrame == InitFrame /\ [][NextFrame]_vars

----------------------------------------------------------------------------
(* statsSync.ts, manualFetchAndProcessGameStatsForWeek: the stats sync of  *)
(* the games of a week, one game after the other.                          *)

\* The sync with its counts and its list of games, waiting at pc.
StatsSync(pc, week, gameIDs, successCount, failureCount) ==
    [pc |-> pc, week |-> week, season |-> currentSeason, cache |-> EmptyCache,
     gameIDs |-> gameIDs, body |-> Null, now |-> 0,
     successCount |-> successCount, failureCount |-> failureCount,
     result |-> NoStatsResult]

\* The call has ended with an error, or with its summary.
StatsThrows(code) ==
    [NoBoxScore EXCEPT !.pc = "returned", !.result = [code |-> code, success |-> FALSE]]
StatsReturns(sync, success) ==
    [sync EXCEPT !.pc = "returned", !.body = Null,
                 !.result = [code |-> "ok", success |-> success]]

\* The call begins: admins only and a week of the season; the position
\* cache is cleared and the list of the games of the week is requested.
manualFetchAndProcessGameStatsForWeek(request) ==
    /\ boxScore.pc = "none"
    /\ boxScore' =
          IF ~request.admin THEN StatsThrows("permission-denied")
          ELSE IF \/ typeof(request.week) # "number"
                  \/ request.week.n < 1
                  \/ request.week.n > MAX_NFL_WEEKS
               THEN StatsThrows("invalid-argument")
          ELSE StatsSync("listing", request.week.n, <<>>, 0, 0)
    /\ UNCHANGED <<clock, nfl_schedules, scheduleWrite, weeklyLineups, usageCounts, calls, gamestats, run>>
    /\ UNCHANGED leagueVars

\* gamesForWeek.map(g => g?.gameID).filter(id => !!id): a game without id
\* is written 0.
RECURSIVE gameIDsOf(_)
gameIDsOf(gamesForWeek) ==
    IF gamesForWeek = <<>> THEN <<>>
    ELSE IF Head(gamesForWeek) = 0 THEN gameIDsOf(Tail(gamesForWeek))
    ELSE <<Head(gamesForWeek)>> \o gameIDsOf(Tail(gamesForWeek))

\* The list of games arrives: a body that is no array ends the call with
\* 'internal', a list without game ids with success, and otherwise the box
\* score of the first game is requested.
GamesForWeekResponds(response) ==
    /\ boxScore.pc = "listing"
    /\ boxScore' =
          IF ~response.isArray THEN StatsThrows("internal")
          ELSE IF gameIDsOf(response.body) = <<>> THEN StatsReturns(boxScore, TRUE)
          ELSE [boxScore EXCEPT !.pc = "fetching", !.gameIDs = gameIDsOf(response.body)]
    /\ UNCHANGED <<clock, nfl_schedules, scheduleWrite, weeklyLineups, usageCounts, calls, gamestats, run>>
    /\ UNCHANGED leagueVars

\* The request of the list fails: the call ends with 'internal'.
GamesForWeekFails ==
    /\ boxScore.pc = "listing"
    /\ boxScore' = StatsThrows("internal")
    /\ UNCHANGED <<clock, nfl_schedules, scheduleWrite, weeklyLineups, usageCounts, calls, gamestats, run>>
    /\ UNCHANGED leagueVars

\* The loop over gameIDs after a game that returned success: the next game,
\* or the summary, whose success flag tells that no game failed.
nextGame(sync, success) ==
    LET counted == [sync EXCEPT
                       !.successCount = IF success THEN @ + 1 ELSE @,
                       !.failureCount = IF success THEN @ ELSE @ + 1,
                       !.gameIDs = Tail(@), !.body = Null]
    IN  IF counted.gameIDs = <<>> THEN StatsReturns(counted, counted.failureCount = 0)
        ELSE [counted EXCEPT !.pc = "fetching"]

\* fetchAndProcessSingleGameStats once the response is there: a body without
\* one of its parts, or a write that gameBatch refuses, returns false; a
\* body that gives no document returns true; otherwise the batch of the
\* documents, stamped with the time of this step, is sent for commit.
fetchAndProcessSingleGameStats(apiBody) ==
    /\ boxScore.pc = "fetching"
    /\ boxScore' =
          IF ~ValidBody(apiBody) THEN nextGame(boxScore, FALSE)
          ELSE IF BatchRefused(apiBody, boxScore.cache) THEN nextGame(boxScore, FALSE)
          ELSE IF storedPlayers(apiBody, boxScore.cache) = <<>> /\ storedSides(apiBody) = <<>>
               THEN nextGame(boxScore, TRUE)
          ELSE [boxScore EXCEPT !.pc = "committing", !.body = apiBody, !.now = clock]
    /\ UNCHANGED <<clock, nfl_schedules, scheduleWrite, weeklyLineups, usageCounts, calls, gamestats, run>>
    /\ UNCHANGED leagueVars

\* The request of the box score fails: the game returns false.
BoxScoreRequestFails ==
    /\ boxScore.pc = "fetching"
    /\ boxScore' = nextGame(boxScore, FALSE)
    /\ UNCHANGED <<clock, nfl_schedules, scheduleWrite, weeklyLineups, usageCounts, calls, gamestats, run>>
    /\ UNCHANGED leagueVars

\* await gameBatch.commit() resolves: the documents of the game are written
\* together and the game returns true.
gameBatchCommit ==
    /\ boxScore.pc = "committing"
    /\ gamestats' = commitGameBatch(gamestats, boxScore.body, boxScore.cache,
                                    Head(boxScore.gameIDs), boxScore.week, boxScore.season,
                                    boxScore.now)
    /\ boxScore' = nextGame(boxScore, TRUE)
    /\ UNCHANGED <<clock, nfl_schedules, scheduleWrite, weeklyLineups, usageCounts, calls, run>>
    /\ UNCHANGED leagueVars

\* await gameBatch.commit() rejects: nothing is written and the game
\* returns false.
gameBatchCommitFails ==
    /\ boxScore.pc = "committing"
    /\ boxScore' = nextGame(boxScore, FALSE)
    /\ UNCHANGED <<clock, nfl_schedules, scheduleWrite, weeklyLineups, usageCounts, calls, gamestats, run>>
    /\ UNCHANGED leagueVars

\* No stats sync has been called yet.
InitStats ==
    /\ clock = 0
    /\ scheduleWrite = NoScheduleWrite
    /\ nfl_schedules = EmptyCollection
    /\ weeklyLineups = EmptyCollection
    /\ usageCounts = EmptyCollection
    /\ calls = [c \in Calls |-> IdleCall]
    /\ gamestats = EmptyCollection
    /\ boxScore = NoBoxScore
    /\ run = IdleRun
    /\ leagues = EmptyCollection
    /\ leagueCalls = [c \in LeagueCalls |-> IdleLeagueCall]

\* The first game of a call answers with any of the bodies, a later game
\* with one of the later bodies.
BodiesOfGame ==
    IF boxScore.successCount + boxScore.failureCount = 0 THEN BoxScoreBodies ELSE LaterBodies

NextStats ==
    \/ \E request \in StatsRequests : manualFetchAndProcessGameStatsForWeek(request)
    \/ \E response \in GamesForWeekResponses : GamesForWeekResponds(response)
    \/ GamesForWeekFails
    \/ \E apiBody \in BodiesOfGame : fetchAndProcessSingleGameStats(apiBody)
    \/ BoxScoreRequestFails
    \/ gameBatchCommit
    \/ gameBatchCommitFails
    \/ Tick

SpecStats == InitStats /\ [][NextStats]_vars

----------------------------------------------------------------------------
(* statsAggregators.ts: the aggregation loops of one team, run over the    *)
(* player statistics of a box score in an iteration order of its keys.     *)

\* The orders in which a query can list a set of documents, or a loop meet
\* the keys of a map.
RECURSIVE Orderings(_)
Orderings(S) ==
    IF S = {} THEN {<<>>}
    ELSE UNION {{<<first>> \o order : order \in Orderings(S \ {first})} : first \in S}

\* The players a box score can list: P1, P2 and K1 as above; a second passer
\* P4 of T1 with a negative and half a rushing yard and an unreadable
\* touchdown count; a passer P3 of T2 who also returns kicks; a player P5
\* without teamID; an entry P6 that is undefined; and the rushers R1, R2 and
\* R3 of T1 with tenths and hundredths of a yard.
Rusher(rushYds) ==
    Obj([teamID |-> Str("T1"),
         Rushing |-> Obj([rushYds |-> rushYds, rushTD |-> Chars(<<"0">>)])])
AggregatePlayers ==
    [P1 |-> RawP1, P2 |-> RawP2, K1 |-> RawK1,
     P3 |-> Obj([teamID |-> Str("T2"),
                 Passing |-> Obj([passYds |-> Chars(<<"9", "9">>), passTD |-> Chars(<<"1">>),
                                  int |-> Chars(<<"2">>)]),
                 Kicking |-> Obj([xpMade |-> Chars(<<"1">>), fgMade |-> Chars(<<"2">>),
                                  kickReturnTD |-> Chars(<<"1">>)]),
                 Punting |-> Obj([puntReturnTD |-> Chars(<<"1">>)])]),
     P4 |-> Obj([teamID |-> Str("T1"),
                 Passing |-> Obj([passYds |-> Chars(<<"3", "0", ".", "5">>),
                                  passTD |-> Chars(<<"x">>), int |-> Chars(<<"1">>)]),
                 Rushing |-> Obj([rushYds |-> Chars(<<"-", "4", ".", "5">>),
                                  rushTD |-> Chars(<<"1">>)]),
                 Defense |-> Obj([fumRetTD |-> Chars(<<"1">>)])]),
     P5 |-> Obj([Passing |-> Obj([passYds |-> Chars(<<"7", "0">>), passTD |-> Chars(<<"1">>),
                                  int |-> Chars(<<"1">>)]),
                 Rushing |-> Obj([rushYds |-> Chars(<<"5">>), rushTD |-> Chars(<<"1">>)]),
                 Kicking |-> Obj([xpMade |-> Chars(<<"1">>), fgMade |-> Chars(<<"1">>),
                                  kickReturnTD |-> Chars(<<"1">>)])]),
     P6 |-> Undefined,
     R1 |-> Rusher(Chars(<<"0", ".", "1">>)),
     R2 |-> Rusher(Chars(<<"0", ".", "3">>)),
     R3 |-> Rusher(Chars(<<"0", ".", "2", "5">>))]

\* The largest number of entries of a map of the model.
MaxPlayers == 4

\* The sets of at most MaxPlayers of these players, and the map of such a
\* set with its keys in an order in which the response can list them.
PlayerSets == {S \in SUBSET DOMAIN AggregatePlayers : Cardinality(S) <= MaxPlayers}
PlayerStatsMap(players, order) == OrderedObj(order, [p \in players |-> AggregatePlayers[p]])

\* The aggregation of a team has not run.
NoAggregates == [done |-> FALSE]

\* The stats sync holds the player statistics of a box score and is about
\* to aggregate those of a team.
InitAggregate ==
    /\ clock = 0
    /\ scheduleWrite = NoScheduleWrite
    /\ nfl_schedules = EmptyCollection
    /\ weeklyLineups = EmptyCollection
    /\ usageCounts = EmptyCollection
    /\ calls = [c \in Calls |-> IdleCall]
    /\ gamestats = EmptyCollection
    /\ \E players \in PlayerSets :
       \E order \in Orderings(players) :
       \E teamID \in {Str("T1"), Str("T2"), Str("T3")} :
           boxScore = [pc |-> "aggregating", playerStats |-> PlayerStatsMap(players, order),
                       teamId |-> teamID, aggregates |-> NoAggregates]
    /\ run = IdleRun
    /\ leagues = EmptyCollection
    /\ leagueCalls = [c \in LeagueCalls |-> IdleLeagueCall]

\* aggregatePassingStats, aggregateRushingStats, aggregateKickingStats and
\* aggregateSpecialTeamsReturnStats of the team return, and the points of
\* its passing and its rushing offense are calculated from the totals.
offenseStatsForCalc(playerStatsMap, teamID) ==
    Obj([passingStats |-> aggregatePassingStats(playerStatsMap, teamID),
         rushingStats |-> aggregateRushingStats(playerStatsMap, teamID)])
aggregateTeamStats ==
    /\ boxScore.pc = "aggregating"
    /\ boxScore' = [boxScore EXCEPT
          !.pc = "aggregated",
          !.aggregates =
              [aggPassing |-> aggregatePassingStats(boxScore.playerStats, boxScore.teamId),
               aggRushing |-> aggregateRushingStats(boxScore.playerStats, boxScore.teamId),
               aggKicking |-> aggregateKickingStats(boxScore.playerStats, boxScore.teamId),
               aggReturns |->
                   aggregateSpecialTeamsReturnStats(boxScore.playerStats, boxScore.teamId),
               fantasyPointsPassing |->
                   Milli(calculatePassingOffensePoints(
                            offenseStatsForCalc(boxScore.playerStats, boxScore.teamId))),
               fantasyPointsRushing |->
                   Milli(calculateRushingOffensePoints(
                            offenseStatsForCalc(boxScore.playerStats, boxScore.teamId)))]]
    /\ UNCHANGED <<clock, nfl_schedules, scheduleWrite, weeklyLineups, usageCounts, calls, gamestats, run>>
    /\ UNCHANGED leagueVars

NextAggregate == aggregateTeamStats

SpecAggregate == InitAggregate /\ [][NextAggregate]_vars

----------------------------------------------------------------------------
(* leagues.ts: createLeague, joinLeagueByCode, joinLeagueById,             *)
(* toggleLeagueVisibility and renameLeague.                                *)

\* String.prototype.trim, on the characters of a string.
RECURSIVE TrimEnd(_)
TrimEnd(cs) ==
    IF cs # <<>> /\ IsWhiteSpace(cs[Len(cs)]) THEN TrimEnd(SubSeq(cs, 1, Len(cs) - 1)) ELSE cs
trim(cs) == TrimEnd(SkipWhiteSpace(cs))

\* !val || typeof val !== 'string' || val.trim() === ''
BlankOrNoString(val) == typeof(val) # "string" \/ trim(val.chars) = <<>>

\* !leagueId || typeof leagueId !== 'string'
NoLeagueId(val) == typeof(val) # "string" \/ val.s = ""

\* const { name, teamName, isPublic = false } = request.data
isPublicOrDefault(data) == IF data.isPublic.t = "undefined" THEN Bool(FALSE) ELSE data.isPublic

\* The error createLeague throws before it writes, "" when there is none.
CreateLeagueError(auth, data) ==
    IF auth.t = "undefined" THEN "unauthenticated"
    ELSE IF BlankOrNoString(data.name) THEN "invalid-argument"
    ELSE IF BlankOrNoString(data.teamName) THEN "invalid-argument"
    ELSE IF typeof(isPublicOrDefault(data)) # "boolean" THEN "invalid-argument"
    ELSE ""

\* The document createLeague adds.
newLeague(uid, data, code, now) ==
    [name |-> trim(data.name.chars), adminUid |-> uid, code |-> code,
     isPublic |-> isPublicOrDefault(data).b,
     members |-> <<[uid |-> uid, teamName |-> trim(data.teamName.chars)]>>,
     memberUids |-> <<uid>>,
     createdAt |-> now]

\* The error a join throws before its query or transaction.
JoinByCodeError(auth, data) ==
    IF auth.t = "undefined" THEN "unauthenticated"
    ELSE IF BlankOrNoString(data.code) THEN "invalid-argument"
    ELSE IF BlankOrNoString(data.teamName) THEN "invalid-argument"
    ELSE ""
JoinByIdError(auth, data) ==
    IF auth.t = "undefined" THEN "unauthenticated"
    ELSE IF NoLeagueId(data.leagueId) THEN "invalid-argument"
    ELSE IF BlankOrNoString(data.teamName) THEN "invalid-argument"
    ELSE ""

\* The ids of the league documents, in their order, as strings and as their
\* places in the order.
LeagueIdStrings == <<"G1", "G2">>
LeagueIdOf(leagueRef) == CHOOSE id \in DOMAIN LeagueIdStrings : LeagueIdStrings[id] = leagueRef

\* where("code", "==", code.trim()).limit(1): the ids of the leagues found,
\* none or the first one in the order of the ids.
leaguesWithCode(collection, code) ==
    LET found == {id \in DOMAIN collection : collection[id].code = trim(code.chars)}
    IN  IF found = {} THEN {}
        ELSE {CHOOSE id \in found : \A other \in found : id <= other}

\* The error the transaction of a join throws after its read.
JoinTransactionError(collection, leagueRef, uid) ==
    IF ~Exists(collection, leagueRef) THEN "not-found"
    ELSE IF uid \in Range(collection[leagueRef].memberUids) THEN "already-exists"
    ELSE ""

\* transaction.update(leagueRef, {members: newMembers, memberUids:
\* newMemberUids}), both lists made from the document that was read.
joinUpdate(collection, leagueRef, read, uid, teamName) ==
    [collection EXCEPT
        ![leagueRef].members = Append(read.members, [uid |-> uid, teamName |-> trim(teamName.chars)]),
        ![leagueRef].memberUids = Append(read.memberUids, uid)]

\* The error toggleLeagueVisibility and renameLeague throw before the read
\* of the league.
ToggleError(auth, data) ==
    IF auth.t = "undefined" THEN "unauthenticated"
    ELSE IF NoLeagueId(data.leagueId) THEN "invalid-argument"
    ELSE IF typeof(data.isPublic) # "boolean" THEN "invalid-argument"
    ELSE ""
RenameError(auth, data) ==
    IF auth.t = "undefined" THEN "unauthenticated"
    ELSE IF NoLeagueId(data.leagueId) THEN "invalid-argument"
    ELSE IF BlankOrNoString(data.newName) THEN "invalid-argument"
    ELSE ""

\* The error both throw after the read of the league: !doc.exists, then
\* data.adminUid !== uid.
AdminError(collection, leagueRef, uid) ==
    IF ~Exists(collection, leagueRef) THEN "not-found"
    ELSE IF collection[leagueRef].adminUid # uid THEN "permission-denied"
    ELSE ""

\* The ids a new league can get, the code sixDigitCode draws in the model
\* (the lowest of the 900000 it can draw: two leagues then share their code,
\* and the joins also ask for the highest, which no league has), and the
\* callers.
LeagueIds == DOMAIN LeagueIdStrings
Codes == {Chars(NatChars(100000))}
Callers == {Str("u1"), Str("u2")}

TeamA == Chars(<<"A">>)
PaddedTeamB == Chars(<<" ", "B", "U+00A0">>)
BlankName == Chars(<<"\r", " ">>)

\* The requests of the league functions.
CreateLeagueRequests ==
    {[auth |-> Str("u1"), data |-> [name |-> TeamA, teamName |-> PaddedTeamB, isPublic |-> Undefined]],
     [auth |-> Str("u1"), data |-> [name |-> BlankName, teamName |-> TeamA, isPublic |-> Bool(TRUE)]]}
JoinByCodeRequests ==
    {[auth |-> auth, data |-> [code |-> code, teamName |-> TeamA]] :
        auth \in Callers,
        code \in {Chars(<<" ">> \o NatChars(100000)), Chars(NatChars(999999))}}
    \cup {[auth |-> Str("u2"), data |-> [code |-> Undefined, teamName |-> TeamA]]}
JoinByIdRequests ==
    {[auth |-> auth, data |-> [leagueId |-> Str(LeagueIdStrings[id]), teamName |-> TeamA]] :
        auth \in Callers, id \in LeagueIds}
    \cup {[auth |-> Str("u2"), data |-> [leagueId |-> Str("G1"), teamName |-> BlankName]]}
ToggleRequests ==
    {[auth |-> auth, data |-> [leagueId |-> Str("G1"), isPublic |-> isPublic]] :
        auth \in Callers, isPublic \in {Bool(TRUE), Undefined}}
RenameRequests ==
    {[auth |-> auth, data |-> [leagueId |-> Str("G1"), newName |-> PaddedTeamB]] : auth \in Callers}

\* The function returns or throws: the slot keeps the response until its
\* next invocation.
LeagueReturn(c, code) ==
    leagueCalls' = [leagueCalls EXCEPT ![c] =
        [IdleLeagueCall EXCEPT !.pc = "done", !.result = [code |-> code]]]

\* The slot of an invocation that has passed its validation and waits for
\* the answer of its first Firestore call.
LeagueAwait(c, pc, fn, request, data, leagueRef) ==
    leagueCalls' = [leagueCalls EXCEPT ![c] =
        [IdleLeagueCall EXCEPT !.pc = pc, !.fn = fn, !.auth = request.auth,
                               !.data = data, !.leagueRef = leagueRef]]

\* createLeague up to its await: the validation, then the document is made,
\* with the code sixDigitCode has drawn, and db.collection('leagues').add is
\* called.
createLeague(c, request) ==
    /\ leagueCalls[c].pc \in {"idle", "done"}
    /\ IF CreateLeagueError(request.auth, request.data) # ""
       THEN LeagueReturn(c, CreateLeagueError(request.auth, request.data))
       ELSE \E code \in Codes :
                LeagueAwait(c, "add", "createLeague", request,
                            [name |-> request.data.name, teamName |-> request.data.teamName,
                             isPublic |-> request.data.isPublic, code |-> code], "")
    /\ UNCHANGED <<clock, nfl_schedules, scheduleWrite, weeklyLineups, usageCounts, calls, leagues>>
    /\ UNCHANGED scoringVars

\* The answer of add: the league is stored under a new id, createdAt being
\* the time of the server at the write, or the call is rejected and nothing
\* is written (the catch throws internal).
LeagueAdd(c) ==
    /\ leagueCalls[c].pc = "add"
    /\ \/ /\ \E id \in LeagueIds \ DOMAIN leagues :
                 leagues' = SetDoc(leagues, id,
                                   newLeague(leagueCalls[c].auth.s, leagueCalls[c].data,
                                             leagueCalls[c].data.code.chars, clock))
          /\ LeagueReturn(c, "ok")
       \/ /\ LeagueReturn(c, "internal")
          /\ UNCHANGED leagues
    /\ UNCHANGED <<clock, nfl_schedules, scheduleWrite, weeklyLineups, usageCounts, calls>>
    /\ UNCHANGED scoringVars

\* joinLeagueByCode up to its await: the validation, then q.get() is called.
joinLeagueByCode(c, request) ==
    /\ leagueCalls[c].pc \in {"idle", "done"}
    /\ IF JoinByCodeError(request.auth, request.data) # ""
       THEN LeagueReturn(c, JoinByCodeError(request.auth, request.data))
       ELSE LeagueAwait(c, "query", "join", request, request.data, "")
    /\ UNCHANGED <<clock, nfl_schedules, scheduleWrite, weeklyLineups, usageCounts, calls, leagues>>
    /\ UNCHANGED scoringVars

\* The answer of q.get(): the query is rejected (the catch throws internal),
\* finds no league, or the transaction begins on the league found. The slot
\* keeps what the transaction uses: the caller, the team name and the
\* league found.
LeagueQuery(c) ==
    /\ leagueCalls[c].pc = "query"
    /\ \/ LeagueReturn(c, "internal")
       \/ IF leaguesWithCode(leagues, leagueCalls[c].data.code) = {}
          THEN LeagueReturn(c, "not-found")
          ELSE \E id \in leaguesWithCode(leagues, leagueCalls[c].data.code) :
                   leagueCalls' = [leagueCalls EXCEPT
                       ![c].pc = "transaction",
                       ![c].data = [teamName |-> leagueCalls[c].data.teamName],
                       ![c].leagueRef = LeagueIdStrings[id]]
    /\ UNCHANGED <<clock, nfl_schedules, scheduleWrite, weeklyLineups, usageCounts, calls, leagues>>
    /\ UNCHANGED scoringVars

\* joinLeagueById up to its transaction: the validation.
joinLeagueById(c, request) ==
    /\ leagueCalls[c].pc \in {"idle", "done"}
    /\ IF JoinByIdError(request.auth, request.data) # ""
       THEN LeagueReturn(c, JoinByIdError(request.auth, request.data))
       ELSE leagueCalls' = [leagueCalls EXCEPT ![c] =
                [IdleLeagueCall EXCEPT !.pc = "transaction", !.fn = "join",
                                       !.auth = request.auth,
                                       !.data = [teamName |-> request.data.teamName],
                                       !.leagueRef = request.data.leagueId.s]]
    /\ UNCHANGED <<clock, nfl_schedules, scheduleWrite, weeklyLineups, usageCounts, calls, leagues>>
    /\ UNCHANGED scoringVars

\* The transaction of a join reads the league: the read is rejected (the
\* catch throws internal), or the transaction throws, or has its update
\* ready.
JoinTransactionRead(c) ==
    /\ leagueCalls[c].pc = "transaction"
    /\ LET leagueRef == LeagueIdOf(leagueCalls[c].leagueRef)
           error == JoinTransactionError(leagues, leagueRef, leagueCalls[c].auth.s)
       IN  \/ LeagueReturn(c, "internal")
           \/ IF error # ""
              THEN LeagueReturn(c, error)
              ELSE leagueCalls' = [leagueCalls EXCEPT ![c].pc = "commit",
                                                      ![c].read = leagues[leagueRef]]
    /\ UNCHANGED <<clock, nfl_schedules, scheduleWrite, weeklyLineups, usageCounts, calls, leagues>>
    /\ UNCHANGED scoringVars

\* JoinTransactionCommit that does not compare the document with the one
\* that was read.
JoinCommitUnchecked(c) ==
    /\ leagueCalls[c].pc = "commit"
    /\ \/ /\ leagues' = joinUpdate(leagues, LeagueIdOf(leagueCalls[c].leagueRef),
                                   leagueCalls[c].read, leagueCalls[c].auth.s,
                                   leagueCalls[c].data.teamName)
          /\ LeagueReturn(c, "ok")
       \/ /\ LeagueReturn(c, "internal")
          /\ UNCHANGED leagues
    /\ UNCHANGED <<clock, nfl_schedules, scheduleWrite, weeklyLineups, usageCounts, calls>>
    /\ UNCHANGED scoringVars

\* The transaction commits, the league being as it was read, or the commit
\* is rejected and nothing is written (the catch throws internal).
JoinTransactionCommit(c) ==
    /\ leagueCalls[c].pc = "commit"
    /\ \/ /\ leagues[LeagueIdOf(leagueCalls[c].leagueRef)] = leagueCalls[c].read
          /\ leagues' = joinUpdate(leagues, LeagueIdOf(leagueCalls[c].leagueRef),
                                   leagueCalls[c].read, leagueCalls[c].auth.s,
                                   leagueCalls[c].data.teamName)
          /\ LeagueReturn(c, "ok")
       \/ /\ LeagueReturn(c, "internal")
          /\ UNCHANGED leagues
    /\ UNCHANGED <<clock, nfl_schedules, scheduleWrite, weeklyLineups, usageCounts, calls>>
    /\ UNCHANGED scoringVars

\* The league has changed since it was read: the transaction runs again.
JoinTransactionRetry(c) ==
    /\ leagueCalls[c].pc = "commit"
    /\ leagues[LeagueIdOf(leagueCalls[c].leagueRef)] # leagueCalls[c].read
    /\ leagueCalls' = [leagueCalls EXCEPT ![c].pc = "transaction", ![c].read = Undefined]
    /\ UNCHANGED <<clock, nfl_schedules, scheduleWrite, weeklyLineups, usageCounts, calls, leagues>>
    /\ UNCHANGED scoringVars

\* toggleLeagueVisibility up to its await: the validation, then
\* leagueRef.get() is called.
toggleLeagueVisibility(c, request) ==
    /\ leagueCalls[c].pc \in {"idle", "done"}
    /\ IF ToggleError(request.auth, request.data) # ""
       THEN LeagueReturn(c, ToggleError(request.auth, request.data))
       ELSE LeagueAwait(c, "get", "toggleLeagueVisibility", request, request.data,
                        request.data.leagueId.s)
    /\ UNCHANGED <<clock, nfl_schedules, scheduleWrite, weeklyLineups, usageCounts, calls, leagues>>
    /\ UNCHANGED scoringVars

\* renameLeague up to its await: the validation, then leagueRef.get() is
\* called.
renameLeague(c, request) ==
    /\ leagueCalls[c].pc \in {"idle", "done"}
    /\ IF RenameError(request.auth, request.data) # ""
       THEN LeagueReturn(c, RenameError(request.auth, request.data))
       ELSE LeagueAwait(c, "get", "renameLeague", request, request.data,
                        request.data.leagueId.s)
    /\ UNCHANGED <<clock, nfl_schedules, scheduleWrite, weeklyLineups, usageCounts, calls, leagues>>
    /\ UNCHANGED scoringVars

\* The answer of leagueRef.get() in both: the read is rejected (the catch
\* throws internal), or the league is missing or not the caller's, or
\* leagueRef.update is called.
LeagueGet(c) ==
    /\ leagueCalls[c].pc = "get"
    /\ LET error == AdminError(leagues, LeagueIdOf(leagueCalls[c].leagueRef),
                               leagueCalls[c].auth.s)
       IN  \/ LeagueReturn(c, "internal")
           \/ IF error # ""
              THEN LeagueReturn(c, error)
              ELSE leagueCalls' = [leagueCalls EXCEPT ![c].pc = "update"]
    /\ UNCHANGED <<clock, nfl_schedules, scheduleWrite, weeklyLineups, usageCounts, calls, leagues>>
    /\ UNCHANGED scoringVars

\* leagueRef.update({ isPublic }) or leagueRef.update({ name }): the one
\* field of the stored league changes, or the update is rejected and
\* nothing is written (the catch throws internal).
LeagueUpdate(c) ==
    /\ leagueCalls[c].pc = "update"
    /\ \/ /\ leagues' =
                 IF leagueCalls[c].fn = "renameLeague"
                 THEN [leagues EXCEPT ![LeagueIdOf(leagueCalls[c].leagueRef)].name =
                                          trim(leagueCalls[c].data.newName.chars)]
                 ELSE [leagues EXCEPT ![LeagueIdOf(leagueCalls[c].leagueRef)].isPublic =
                                          leagueCalls[c].data.isPublic.b]
          /\ LeagueReturn(c, "ok")
       \/ /\ LeagueReturn(c, "internal")
          /\ UNCHANGED leagues
    /\ UNCHANGED <<clock, nfl_schedules, scheduleWrite, weeklyLineups, usageCounts, calls>>
    /\ UNCHANGED scoringVars

\* No league exists and no league function runs.
InitLeagues ==
    /\ clock = 0
    /\ scheduleWrite = NoScheduleWrite
    /\ nfl_schedules = EmptyCollection
    /\ weeklyLineups = EmptyCollection
    /\ usageCounts = EmptyCollection
    /\ calls = [c \in Calls |-> IdleCall]
    /\ gamestats = EmptyCollection
    /\ boxScore = NoBoxScore
    /\ run = IdleRun
    /\ leagues = EmptyCollection
    /\ leagueCalls = [c \in LeagueCalls |-> IdleLeagueCall]

NextLeagues ==
    \E c \in LeagueCalls :
        \/ \E request \in CreateLeagueRequests : createLeague(c, request)
        \/ LeagueAdd(c)
        \/ \E request \in JoinByCodeRequests : joinLeagueByCode(c, request)
        \/ LeagueQuery(c)
        \/ \E request \in JoinByIdRequests : joinLeagueById(c, request)
        \/ JoinTransactionRead(c)
        \/ JoinTransactionCommit(c)
        \/ JoinTransactionRetry(c)
        \/ \E request \in ToggleRequests : toggleLeagueVisibility(c, request)
        \/ \E request \in RenameRequests : renameLeague(c, request)
        \/ LeagueGet(c)
        \/ LeagueUpdate(c)

SpecLeagues == InitLeagues /\ [][NextLeagues]_vars

----------------------------------------------------------------------------
(* calculateWeeklyScores.                                                  *)

\* The async function of one lineup up to its first await: a lineup without
\* picks is skipped, every other one has issued the lookups of its slots.
StartTask(row) ==
    IF DOMAIN row.picks = {}
    THEN [st |-> "settled", outcome |-> "skipped", results |-> <<>>,
          lineupProcessingError |-> FALSE, weeklyTotalPoints |-> 0, now |-> 0]
    ELSE [st |-> "lookups", outcome |-> "",
          results |-> [position \in DOMAIN row.picks |-> [st |-> "pending", points |-> 0]],
          lineupProcessingError |-> FALSE, weeklyTotalPoints |-> 0, now |-> 0]

\* A loop that starts every lineup of the list at once.
StartEveryLineup(r) ==
    [r EXCEPT !.tasks = [i \in 1 .. Len(r.docs) |->
                            IF i <= Len(r.tasks) THEN r.tasks[i]
                            ELSE StartTask(r.docs[i].data)]]

\* The loop runs until currentBatchPromises holds batchSize lineups or the
\* list ends: the next lineups of the list are started.
StartBatch(r) ==
    LET last == IF Len(r.tasks) + batchSize < Len(r.docs)
                THEN Len(r.tasks) + batchSize ELSE Len(r.docs)
    IN  [r EXCEPT !.tasks = [i \in 1 .. last |->
                                IF i <= Len(r.tasks) THEN r.tasks[i]
                                ELSE StartTask(r.docs[i].data)]]

\* Promise.allSettled that also returns when a lineup has failed.
BatchSettledOrFailed(r) ==
    \/ \A i \in DOMAIN r.tasks : r.tasks[i].st = "settled"
    \/ \E i \in DOMAIN r.tasks : r.tasks[i].outcome = "failed"

\* Promise.allSettled(currentBatchPromises): every started lineup is settled.
BatchSettled(r) == \A i \in DOMAIN r.tasks : r.tasks[i].st = "settled"

\* calculateWeeklyScores from its invocation to await lineupQuery.get(): the
\* validation of the week; the query of the lineups is sent.
calculateWeeklyScores(request) ==
    /\ run.pc \in {"idle", "done"}
    /\ LET season == IF request.season.t \in {"undefined", "null"}
                     THEN currentSeason ELSE request.season.n
           called == [IdleRun EXCEPT
                        !.request = request,
                        !.fieldOrder = run.fieldOrder,
                        !.rerun = (run.pc = "done" /\ run.request = request),
                        !.commits = boxScore.successCount,
                        !.first = IF run.pc = "done" /\ run.request = request
                                  THEN [scored |-> run.scored, commits |-> run.commits]
                                  ELSE NoFirstRun]
       IN  IF \/ typeof(request.week) # "number"
              \/ request.week.n < 1
              \/ request.week.n > MAX_NFL_WEEKS
           THEN run' = [called EXCEPT !.pc = "done",
                                      !.result = [NoRunResult EXCEPT !.code = "invalid-argument"]]
           ELSE run' = [called EXCEPT !.pc = "query", !.week = request.week.n,
                                      !.season = season]
    /\ UNCHANGED <<clock, nfl_schedules, scheduleWrite, weeklyLineups, usageCounts, calls, gamestats, boxScore>>
    /\ UNCHANGED leagueVars

\* lineupQuery.get() answers with the rows that match now: without a row
\* the run returns, with rows the lookups of the lineups of the first batch
\* are started.
LineupQueryResolves ==
    /\ run.pc = "query"
    /\ \E order \in Orderings(lineupQuery(weeklyLineups, run.season, run.week,
                                           run.request.leagueId)) :
           IF order = <<>>
           THEN run' = [run EXCEPT
                           !.pc = "done",
                           !.result = [NoRunResult EXCEPT !.code = "ok",
                                                          !.success = TRUE,
                                                          !.message = "No lineups found"]]
           ELSE run' = StartBatch(
                         [run EXCEPT
                           !.pc = "running",
                           !.docs = [i \in DOMAIN order |->
                                       [ref |-> order[i], data |-> weeklyLineups[order[i]]]]])
    /\ UNCHANGED <<clock, nfl_schedules, scheduleWrite, weeklyLineups, usageCounts, calls, gamestats, boxScore>>
    /\ UNCHANGED leagueVars

\* lineupQuery.get() is rejected: no try encloses it, the callable fails
\* with internal and no lineup is scored.
LineupQueryFails ==
    /\ run.pc = "query"
    /\ run' = [run EXCEPT !.pc = "done",
                          !.result = [NoRunResult EXCEPT !.code = "internal",
                                                         !.message = "INTERNAL"]]
    /\ UNCHANGED <<clock, nfl_schedules, scheduleWrite, weeklyLineups, usageCounts, calls, gamestats, boxScore>>
    /\ UNCHANGED leagueVars

\* The lookup of one slot of lineup i returns.
LookupResolves(i, position) ==
    /\ run.pc = "running"
    /\ i \in DOMAIN run.tasks
    /\ run.tasks[i].st = "lookups"
    /\ position \in DOMAIN run.tasks[i].results
    /\ run.tasks[i].results[position].st = "pending"
    /\ run' = [run EXCEPT !.tasks[i].results[position] =
                  lookupResult(gamestats, position, run.docs[i].data.picks[position],
                               run.season, run.week)]
    /\ UNCHANGED <<clock, nfl_schedules, scheduleWrite, weeklyLineups, usageCounts, calls, gamestats, boxScore>>
    /\ UNCHANGED leagueVars

\* The lookup of one slot of lineup i raises an error: the slot counts 0 and
\* lineupProcessingError is set.
LookupFails(i, position) ==
    /\ run.pc = "running"
    /\ i \in DOMAIN run.tasks
    /\ run.tasks[i].st = "lookups"
    /\ position \in DOMAIN run.tasks[i].results
    /\ run.tasks[i].results[position].st = "pending"
    /\ run' = [run EXCEPT !.tasks[i].results[position] = [st |-> "failed", points |-> 0],
                          !.tasks[i].lineupProcessingError = TRUE]
    /\ UNCHANGED <<clock, nfl_schedules, scheduleWrite, weeklyLineups, usageCounts, calls, gamestats, boxScore>>
    /\ UNCHANGED leagueVars

\* Object.entries(lineupData.picks): the positions of the picks of a row
\* in the order in which the store lists them.
ObjectEntries(picks, fieldOrder) ==
    SelectSeq(fieldOrder, LAMBDA position : position \in DOMAIN picks)

\* results.reduce((sum, pts) => sum + pts, 0): the points of the slots, each
\* the double nearest to its thousandths, added in the order of the
\* entries of the picks.
SumOfResults(results, entries) ==
    ForInDoubleSum(entries, DOMAIN results,
                   [position \in DOMAIN results |-> DoubleOf(results[position].points)],
                   DoubleZero)

\* PromiseAllResolves that goes on as soon as one lookup has returned.
PromiseAnyResolves(i) ==
    /\ run.pc = "running"
    /\ i \in DOMAIN run.tasks
    /\ run.tasks[i].st = "lookups"
    /\ \E position \in DOMAIN run.tasks[i].results :
           run.tasks[i].results[position].st # "pending"
    /\ IF ~run.tasks[i].lineupProcessingError
       THEN run' = [run EXCEPT
                       !.tasks[i].st = "update",
                       !.tasks[i].weeklyTotalPoints =
                           roundToCents(SumOfResults(run.tasks[i].results,
                               ObjectEntries(run.docs[i].data.picks, run.fieldOrder))),
                       !.tasks[i].now = clock]
       ELSE run' = [run EXCEPT !.tasks[i].st = "settled",
                               !.tasks[i].outcome = "failed",
                               !.errorCount = @ + 1]
    /\ UNCHANGED <<clock, nfl_schedules, scheduleWrite, weeklyLineups, usageCounts, calls, gamestats, boxScore>>
    /\ UNCHANGED leagueVars

\* Promise.all(pointFetchPromises) resolves: without a lookup error the
\* rounded sum is sent to the lineup row, with one the lineup is counted as
\* an error.
PromiseAllResolves(i) ==
    /\ run.pc = "running"
    /\ i \in DOMAIN run.tasks
    /\ run.tasks[i].st = "lookups"
    /\ \A position \in DOMAIN run.tasks[i].results :
           run.tasks[i].results[position].st # "pending"
    /\ IF ~run.tasks[i].lineupProcessingError
       THEN run' = [run EXCEPT
                       !.tasks[i].st = "update",
                       !.tasks[i].weeklyTotalPoints =
                           roundToCents(SumOfResults(run.tasks[i].results,
                               ObjectEntries(run.docs[i].data.picks, run.fieldOrder))),
                       !.tasks[i].now = clock]
       ELSE run' = [run EXCEPT !.tasks[i].st = "settled",
                               !.tasks[i].outcome = "failed",
                               !.errorCount = @ + 1]
    /\ UNCHANGED <<clock, nfl_schedules, scheduleWrite, weeklyLineups, usageCounts, calls, gamestats, boxScore>>
    /\ UNCHANGED leagueVars

\* UpdateSucceeds that adds the total to the one the row holds.
UpdateAccumulates(i) ==
    /\ run.pc = "running"
    /\ i \in DOMAIN run.tasks
    /\ run.tasks[i].st = "update"
    /\ Exists(weeklyLineups, run.docs[i].ref)
    /\ weeklyLineups' =
           [weeklyLineups EXCEPT
               ![run.docs[i].ref].totalPoints =
                   IF @ = Null THEN Milli(run.tasks[i].weeklyTotalPoints)
                   ELSE Milli(@.milli + run.tasks[i].weeklyTotalPoints),
               ![run.docs[i].ref].lastUpdated = run.tasks[i].now]
    /\ run' = [run EXCEPT !.tasks[i].st = "settled",
                          !.tasks[i].outcome = "scored",
                          !.processedCount = @ + 1,
                          !.scored = @ \cup {run.docs[i].ref}]
    /\ UNCHANGED <<clock, nfl_schedules, scheduleWrite, usageCounts, calls, gamestats, boxScore>>
    /\ UNCHANGED leagueVars

\* lineupRef.update({totalPoints, lastUpdated}) is applied: the two fields of
\* the stored row change, the lineup is counted as processed.
UpdateSucceeds(i) ==
    /\ run.pc = "running"
    /\ i \in DOMAIN run.tasks
    /\ run.tasks[i].st = "update"
    /\ Exists(weeklyLineups, run.docs[i].ref)
    /\ weeklyLineups' =
           [weeklyLineups EXCEPT
               ![run.docs[i].ref].totalPoints = Milli(run.tasks[i].weeklyTotalPoints),
               ![run.docs[i].ref].lastUpdated = run.tasks[i].now]
    /\ run' = [run EXCEPT !.tasks[i].st = "settled",
                          !.tasks[i].outcome = "scored",
                          !.processedCount = @ + 1,
                          !.scored = @ \cup {run.docs[i].ref}]
    /\ UNCHANGED <<clock, nfl_schedules, scheduleWrite, usageCounts, calls, gamestats, boxScore>>
    /\ UNCHANGED leagueVars

\* UpdateFails that does not count the error.
UpdateFailsUncounted(i) ==
    /\ run.pc = "running"
    /\ i \in DOMAIN run.tasks
    /\ run.tasks[i].st = "update"
    /\ run' = [run EXCEPT !.tasks[i].st = "settled",
                          !.tasks[i].outcome = "failed"]
    /\ UNCHANGED <<clock, nfl_schedules, scheduleWrite, weeklyLineups, usageCounts, calls, gamestats, boxScore>>
    /\ UNCHANGED leagueVars

\* lineupRef.update fails: the row stays, the lineup is counted as an error.
UpdateFails(i) ==
    /\ run.pc = "running"
    /\ i \in DOMAIN run.tasks
    /\ run.tasks[i].st = "update"
    /\ run' = [run EXCEPT !.tasks[i].st = "settled",
                          !.tasks[i].outcome = "failed",
                          !.errorCount = @ + 1]
    /\ UNCHANGED <<clock, nfl_schedules, scheduleWrite, weeklyLineups, usageCounts, calls, gamestats, boxScore>>
    /\ UNCHANGED leagueVars

\* The batch has settled: the loop starts the next batch, or after the last
\* one the summary is returned.
BatchSettles ==
    /\ run.pc = "running"
    /\ BatchSettled(run)
    /\ IF Len(run.tasks) < Len(run.docs)
       THEN run' = StartBatch(run)
       ELSE run' = [IdleRun EXCEPT
                       !.pc = "done", !.request = run.request, !.rerun = run.rerun,
                       !.week = run.week, !.season = run.season,
                       !.fieldOrder = run.fieldOrder, !.scored = run.scored,
                       !.commits = run.commits, !.first = run.first,
                       !.result = [code |-> "ok", success |-> (run.errorCount = 0),
                                   message |-> "Score calculation finished",
                                   processedCount |-> run.processedCount,
                                   errorCount |-> run.errorCount]]
    /\ UNCHANGED <<clock, nfl_schedules, scheduleWrite, weeklyLineups, usageCounts, calls, gamestats, boxScore>>
    /\ UNCHANGED leagueVars

\* The steps of a scoring run after its invocation.
ScoringStep ==
    \/ \E i \in DOMAIN run.tasks, position \in Range(validPositions) : LookupResolves(i, position)
    \/ \E i \in DOMAIN run.tasks, position \in Range(validPositions) : LookupFails(i, position)
    \/ \E i \in DOMAIN run.tasks : PromiseAllResolves(i)
    \/ \E i \in DOMAIN run.tasks : UpdateSucceeds(i)
    \/ \E i \in DOMAIN run.tasks : UpdateFails(i)
    \/ BatchSettles

\* The schedule of a week whose only game kicks off at second 2.
OpenWeek(week) ==
    [season |-> currentSeason, week |-> week, games |-> <<Game(Chars(<<"2">>))>>,
     lastUpdated |-> 0]

\* The rows and counters after the accepted save of picks by a user for
\* week 1 of league L1 at second 0.
LineupsAfterSave(lineups, userId, picks) ==
    MergeLineup(lineups, lineupDocRef(userId, "L1", 1), lineupData(userId, "L1", 1, picks, 0))
UsageAfterSave(usage, userId, picks) ==
    IncrementAll(usage, userId, "L1", entityIdsToUpdate(picks))

\* Saves and scoring runs side by side: user u1 saves two players for week 1
\* of league L1, or replaces the first by the second, again and again, and
\* week 1 is scored.
ScoringSaveRequests ==
    {Request(Str("u1"), Data(Str("L1"), Num(1), picksQBRB)),
     Request(Str("u1"), Data(Str("L1"), Num(1), picksQB2)),
     Request(Undefined, Data(Str("L1"), Num(1), picksQB))}

\* Week 1 for all leagues, and a week out of range.
ScoringRunRequests ==
    {ScoreRequest(Num(1), Undefined, Undefined),
     ScoreRequest(Num(MAX_NFL_WEEKS + 1), Undefined, Undefined)}

InitScoring ==
    /\ clock = 0
    /\ scheduleWrite = NoScheduleWrite
    /\ nfl_schedules = SetDoc(EmptyCollection, scheduleDocId(1), OpenWeek(1))
    /\ weeklyLineups = EmptyCollection
    /\ usageCounts = EmptyCollection
    /\ calls = [c \in Calls |-> IdleCall]
    /\ gamestats \in GameStatsInputs
    /\ boxScore = NoBoxScore
    /\ run = IdleRun
    /\ leagues = EmptyCollection
    /\ leagueCalls = [c \in LeagueCalls |-> IdleLeagueCall]

NextScoring ==
    \/ \E request \in ScoringSaveRequests : saveWeeklyLineup(1, request)
    \/ DeadlineCheck(1)
    \/ TransactionBegin(1)
    \/ TransactionRead(1)
    \/ TransactionCommit(1)
    \/ TransactionFails(1)
    \/ \E request \in ScoringRunRequests : calculateWeeklyScores(request)
    \/ LineupQueryResolves
    \/ LineupQueryFails
    \/ ScoringStep

SpecScoring == InitScoring /\ [][NextScoring]_vars

\* Scoring runs one after the other with no save: both users have saved
\* their lineups of week 1, and the store lists the fields of a map in one
\* of its orders.
InitRescoring ==
    /\ clock = 0
    /\ scheduleWrite = NoScheduleWrite
    /\ nfl_schedules = SetDoc(EmptyCollection, scheduleDocId(1), OpenWeek(1))
    /\ weeklyLineups =
           LineupsAfterSave(LineupsAfterSave(EmptyCollection, "u2", picksWRUnits),
                            "u1", picksQBDefense)
    /\ usageCounts =
           UsageAfterSave(UsageAfterSave(EmptyCollection, "u2", picksWRUnits),
                          "u1", picksQBDefense)
    /\ calls = [c \in Calls |-> IdleCall]
    /\ gamestats \in GameStatsInputs
    /\ boxScore = NoBoxScore
    /\ run \in {[IdleRun EXCEPT !.fieldOrder = fieldOrder] : fieldOrder \in FieldOrders}
    /\ leagues = EmptyCollection
    /\ leagueCalls = [c \in LeagueCalls |-> IdleLeagueCall]

NextRescoring ==
    \/ \E request \in ScoreRequests : calculateWeeklyScores(request)
    \/ LineupQueryResolves
    \/ LineupQueryFails
    \/ ScoringStep

SpecRescoring == InitRescoring /\ [][NextRescoring]_vars

\* The stats sync of week 1 has received a revised box score of game 1, in
\* which T1 has allowed 21 points and has no sack and no interception,
\* and has sent its batch for commit.
RevisedBatch ==
    [StatsSync("committing", 1, <<1>>, 0, 0) EXCEPT
        !.body = BoxScoreBody(AllPlayers, AwayDST)]

\* Week 1 for all leagues, and for a league without lineups.
RerunRequests ==
    {ScoreRequest(Num(1), Undefined, Undefined),
     ScoreRequest(Num(1), Undefined, Str("L9"))}

\* Scoring runs one after the other with no save, before and after the
\* stats sync commits the revised box score: both users have saved their
\* lineups of week 1.
InitRerun ==
    /\ clock = 0
    /\ scheduleWrite = NoScheduleWrite
    /\ nfl_schedules = SetDoc(EmptyCollection, scheduleDocId(1), OpenWeek(1))
    /\ weeklyLineups =
           LineupsAfterSave(LineupsAfterSave(EmptyCollection, "u2", picksWRUnits),
                            "u1", picksQBDefense)
    /\ usageCounts =
           UsageAfterSave(UsageAfterSave(EmptyCollection, "u2", picksWRUnits),
                          "u1", picksQBDefense)
    /\ calls = [c \in Calls |-> IdleCall]
    /\ gamestats = WeekOneStats
    /\ boxScore = RevisedBatch
    /\ run \in {[IdleRun EXCEPT !.fieldOrder = fieldOrder] : fieldOrder \in FieldOrders}
    /\ leagues = EmptyCollection
    /\ leagueCalls = [c \in LeagueCalls |-> IdleLeagueCall]

NextRerun ==
    \/ \E request \in RerunRequests : calculateWeeklyScores(request)
    \/ LineupQueryResolves
    \/ LineupQueryFails
    \/ ScoringStep
    \/ gameBatchCommit

SpecRerun == InitRerun /\ [][NextRerun]_vars

\* Scoring runs over the lineups of two leagues and two weeks: user u1 has
\* saved a quarterback for week 1 of leagues L1 and L2 and for week 2 of
\* league L1.
SavedLineup(lineups, leagueId, week, picks) ==
    MergeLineup(lineups, lineupDocRef("u1", leagueId, week),
                lineupData("u1", leagueId, week, picks, 0))
SavedUsage(usage, leagueId, picks) ==
    IncrementAll(usage, "u1", leagueId, entityIdsToUpdate(picks))

\* Weeks 1 and 2 for all leagues, week 1 for league L1, for a league
\* without lineups, for a leagueId that is a number, one that is the empty
\* string, and for the season before.
ScoreFrameRequests ==
    {ScoreRequest(Num(1), Undefined, Undefined),
     ScoreRequest(Num(2), Undefined, Undefined),
     ScoreRequest(Num(1), Undefined, Str("L1")),
     ScoreRequest(Num(1), Undefined, Str("L9")),
     ScoreRequest(Num(1), Undefined, Num(5)),
     ScoreRequest(Num(1), Undefined, Str("")),
     ScoreRequest(Num(1), Num(currentSeason - 1), Str("L1"))}

InitScoreFrame ==
    /\ clock = 0
    /\ scheduleWrite = NoScheduleWrite
    /\ nfl_schedules = SetDoc(SetDoc(EmptyCollection, scheduleDocId(1), OpenWeek(1)),
                              scheduleDocId(2), OpenWeek(2))
    /\ weeklyLineups =
           SavedLineup(SavedLineup(SavedLineup(EmptyCollection, "L1", 1, picksQB),
                                   "L2", 1, picksQB2),
                       "L1", 2, picksQB)
    /\ usageCounts =
           SavedUsage(SavedUsage(SavedUsage(EmptyCollection, "L1", picksQB), "L2", picksQB2),
                      "L1", picksQB)
    /\ calls = [c \in Calls |-> IdleCall]
    /\ gamestats \in GameStatsInputs
    /\ boxScore = NoBoxScore
    /\ run = IdleRun
    /\ leagues = EmptyCollection
    /\ leagueCalls = [c \in LeagueCalls |-> IdleLeagueCall]

NextScoreFrame ==
    \/ \E request \in ScoreFrameRequests : calculateWeeklyScores(request)
    \/ LineupQueryResolves
    \/ LineupQueryFails
    \/ ScoringStep

SpecScoreFrame == InitScoreFrame /\ [][NextScoreFrame]_vars

\* Saves whose leagueId or pick id contains '/', and scoring runs of week 1:
\* a league id with one '/' and with two, a player id with one '/' and with
\* two, and two player ids that end in the same segment. No counter is
\* raised beyond MaxUses.
MaxUses == 6

PathRequests ==
    {Request(Str("u1"), Data(Str("L/1"), Num(1), picksQB)),
     Request(Str("u1"), Data(Str("L/1/2"), Num(1), picksQB)),
     Request(Str("u1"), Data(Str("L1"), Num(1),
        OrderedObj(<<"QB">>, [QB |-> Pick(Str("a/b"), Str("player"))]))),
     Request(Str("u1"), Data(Str("L1"), Num(1),
        OrderedObj(<<"QB">>, [QB |-> Pick(Str("a/b/c"), Str("player"))]))),
     Request(Str("u1"), Data(Str("L1"), Num(1),
        OrderedObj(<<"QB", "RB">>, [QB |-> Pick(Str("a/b/c"), Str("player")),
                                    RB |-> Pick(Str("x/b/c"), Str("player"))])))}

InitPaths ==
    /\ clock = 0
    /\ scheduleWrite = NoScheduleWrite
    /\ nfl_schedules = SetDoc(EmptyCollection, scheduleDocId(1), OpenWeek(1))
    /\ weeklyLineups = EmptyCollection
    /\ usageCounts = EmptyCollection
    /\ calls = [c \in Calls |-> IdleCall]
    /\ gamestats = EmptyCollection
    /\ boxScore = NoBoxScore
    /\ run = IdleRun
    /\ leagues = EmptyCollection
    /\ leagueCalls = [c \in LeagueCalls |-> IdleLeagueCall]

NextPaths ==
    \/ /\ \A path \in DOMAIN usageCounts : usageCounts[path].count < MaxUses
       /\ \E request \in PathRequests : saveWeeklyLineup(1, request)
    \/ DeadlineCheck(1)
    \/ TransactionBegin(1)
    \/ TransactionRead(1)
    \/ TransactionCommit(1)
    \/ TransactionFails(1)
    \/ calculateWeeklyScores(ScoreRequest(Num(1), Undefined, Undefined))
    \/ LineupQueryResolves
    \/ LineupQueryFails
    \/ ScoringStep

SpecPaths == InitPaths /\ [][NextPaths]_vars

\* A run over more lineups than one batch holds: NumLineups users have each
\* saved a quarterback for week 1 of league L1, and a run for week 1 has
\* read their rows in the order of the users and started its first batch.
NumLineups == 201

BatchUser(i) == "b" \o ToString(i)

\* The rows and the counters after the saves of users 1 .. n: the users
\* write different rows and different counters.
BatchLineups(n) ==
    [path \in {lineupDocRef(BatchUser(i), "L1", 1) : i \in 1 .. n} |->
        LineupsAfterSave(EmptyCollection, path[1], picksQB)[path]]

BatchUsage(n) ==
    LET saved(i) == UsageAfterSave(EmptyCollection, BatchUser(i), picksQB)
    IN  [path \in UNION {DOMAIN saved(i) : i \in 1 .. n} |->
            saved(CHOOSE i \in 1 .. n : path \in DOMAIN saved(i))[path]]

InitBatches ==
    /\ clock = 0
    /\ scheduleWrite = NoScheduleWrite
    /\ nfl_schedules = SetDoc(EmptyCollection, scheduleDocId(1), OpenWeek(1))
    /\ weeklyLineups = BatchLineups(NumLineups)
    /\ usageCounts = BatchUsage(NumLineups)
    /\ calls = [c \in Calls |-> IdleCall]
    /\ gamestats \in GameStatsInputs
    /\ boxScore = NoBoxScore
    /\ run = StartBatch(
               [IdleRun EXCEPT
                   !.pc = "running", !.request = ScoreRequest(Num(1), Undefined, Undefined),
                   !.week = 1, !.season = currentSeason,
                   !.docs = [i \in 1 .. NumLineups |->
                               [ref |-> lineupDocRef(BatchUser(i), "L1", 1),
                                data |-> weeklyLineups[lineupDocRef(BatchUser(i), "L1", 1)]]]])
    /\ leagues = EmptyCollection
    /\ leagueCalls = [c \in LeagueCalls |-> IdleLeagueCall]

\* The schedules of the lineups that are followed: the lineups of the first
\* batch but its last two settle one after the other without an error; the
\* last two of the batch and the lineups after the batch then take their
\* steps in any order and may fail.
FreeLineup(i) == i > batchSize - 2
InTurn(i) ==
    IF FreeLineup(i) THEN run.tasks[batchSize - 2].st = "settled"
    ELSE IF i = 1 THEN TRUE ELSE run.tasks[i - 1].st = "settled"

NextBatches ==
    \/ \E i \in DOMAIN run.tasks, position \in Range(validPositions) :
           InTurn(i) /\ LookupResolves(i, position)
    \/ \E i \in DOMAIN run.tasks, position \in Range(validPositions) :
           FreeLineup(i) /\ LookupFails(i, position)
    \/ \E i \in DOMAIN run.tasks : InTurn(i) /\ PromiseAllResolves(i)
    \/ \E i \in DOMAIN run.tasks : InTurn(i) /\ UpdateSucceeds(i)
    \/ \E i \in DOMAIN run.tasks : FreeLineup(i) /\ UpdateFails(i)
    \/ BatchSettles

SpecBatches == InitBatches /\ [][NextBatches]_vars

----------------------------------------------------------------------------
(* Vocabulary of the properties.                                           *)

\* The count of a usage document, 0 when it does not exist.
CountAt(usage, path) == IF Exists(usage, path) THEN usage[path].count ELSE 0

\* The usage document paths and the lineup row of the request call c holds.
UsagePathsOf(c) ==
    {usageDocRef(calls[c].auth.s, calls[c].data.leagueId.s, entityId) :
        entityId \in Range(entityIdsToUpdate(calls[c].data.picks))}
LineupPathOf(c) ==
    lineupDocRef(calls[c].auth.s, calls[c].data.leagueId.s, calls[c].data.week.n)

\* Call c is inside its transaction.
InTransaction(c) == calls[c].pc \in {"transaction", "getAll", "commit"}

\* This step is the one in which call c returns success.
AcceptedStep(c) ==
    /\ InTransaction(c)
    /\ calls'[c].pc = "done"
    /\ calls'[c].result.code = "ok"

\* This step writes the lineup row at path: the row appears or its picks,
\* completeness flag or timestamp change.
LineupWritten(path) ==
    /\ Exists(weeklyLineups', path)
    /\ \/ ~Exists(weeklyLineups, path)
       \/ weeklyLineups'[path].picks # weeklyLineups[path].picks
       \/ weeklyLineups'[path].isComplete # weeklyLineups[path].isComplete

\* This step changes nothing in the lineup rows and the usage counters.
StoreUnchanged == UNCHANGED <<weeklyLineups, usageCounts>>

----------------------------------------------------------------------------
(* C1: an accepted save writes its lineup row and increments the counters  *)
(* of all its picks in one step. No step writes a lineup row without       *)
(* incrementing the counter of every pick of the save that wrote it, and   *)
(* no step changes a counter without storing the picks of the save that    *)
(* changed it; a transaction that fails or is retried writes nothing.      *)
C1_LineupAndCountersTogether ==
    [][/\ \A path \in DOMAIN weeklyLineups' :
            LineupWritten(path) =>
                \E c \in Calls :
                    /\ AcceptedStep(c)
                    /\ LineupPathOf(c) = path
                    /\ \A u \in UsagePathsOf(c) :
                           CountAt(usageCounts', u) > CountAt(usageCounts, u)
       /\ \A u \in DOMAIN usageCounts' :
            CountAt(usageCounts', u) # CountAt(usageCounts, u) =>
                \E c \in Calls :
                    /\ AcceptedStep(c)
                    /\ u \in UsagePathsOf(c)
                    /\ Exists(weeklyLineups', LineupPathOf(c))
                    /\ \A pos \in Keys(calls[c].data.picks) :
                        /\ pos \in DOMAIN weeklyLineups'[LineupPathOf(c)].picks
                        /\ weeklyLineups'[LineupPathOf(c)].picks[pos] =
                               lineupPicksWithTimestamp(calls[c].data.picks, calls[c].now)[pos]
       /\ DOMAIN weeklyLineups \subseteq DOMAIN weeklyLineups'
       /\ DOMAIN usageCounts \subseteq DOMAIN usageCounts'
       /\ \A c \in Calls :
            (InTransaction(c) /\ calls'[c] # calls[c] /\ ~AcceptedStep(c)) => StoreUnchanged
      ]_vars

\* A save was accepted while another invocation of the same user was between
\* its read and its commit, and the stored row and counters show the save.
C1_Witness ==
    \E c1, c2 \in Calls :
        /\ c1 # c2
        /\ calls[c1].pc = "done" /\ calls[c1].result.code = "ok"
        /\ calls[c2].pc = "commit"
        /\ Exists(weeklyLineups, LineupPathOf(c1))
        /\ \A u \in UsagePathsOf(c1) : CountAt(usageCounts, u) >= 1

----------------------------------------------------------------------------
(* The request as the specification words it.                              *)

SlotNames ==
    {"QB", "RB", "WR", "TE", "PassingOffense", "RushingOffense", "Defense", "SpecialTeams"}

\* The request data is well formed: a non-empty league id, a week in 1..18,
\* and a non-empty map from slot names to picks with a string id and a kind
\* that is player or team.
WellFormed(data) ==
    /\ data.leagueId.t = "string" /\ data.leagueId.s # ""
    /\ data.week.t = "number" /\ data.week.n \in 1 .. 18
    /\ data.picks.t = "object"
    /\ DOMAIN data.picks.o # {}
    /\ DOMAIN data.picks.o \subseteq SlotNames
    /\ \A pos \in DOMAIN data.picks.o :
        /\ data.picks.o[pos].id.t = "string"
        /\ data.picks.o[pos].type.t = "string"
        /\ data.picks.o[pos].type.s \in {"player", "team"}

\* The usable kickoff epochs of a list of games, and the earliest of them.
KickoffEpochs(games) ==
    {n \in {safeParseInt(games[i].gameTimeEpoch) : i \in DOMAIN games} : n > 0}
EarliestKickoff(games) ==
    CHOOSE t \in KickoffEpochs(games) : \A n \in KickoffEpochs(games) : t <= n

StoreIsEmpty == weeklyLineups = EmptyCollection /\ usageCounts = EmptyCollection

\* The schedule row of the week exists and lists a game with a kickoff.
HasKickoff(week) ==
    /\ Exists(nfl_schedules, scheduleDocId(week))
    /\ KickoffEpochs(nfl_schedules[scheduleDocId(week)].games) # {}
KickoffOf(week) == EarliestKickoff(nfl_schedules[scheduleDocId(week)].games)

\* This step is a step of call c.
StepOf(c) == calls'[c] # calls[c]

----------------------------------------------------------------------------
(* C2: a save rejected by input validation or by the deadline check        *)
(* changes no lineup row and no usage counter. A request of a logged-in    *)
(* user whose data is not well formed ends at once with invalid-argument,  *)
(* and the step that takes it, like the step in which the deadline check   *)
(* rejects a request, leaves both collections as they were.                *)
C2_RejectedSaveChangesNothing ==
    [][\A c \in Calls :
        /\ (StepOf(c) /\ calls'[c].auth.t = "string" /\ calls'[c].auth.s # ""
                /\ ~WellFormed(calls'[c].data)) =>
              /\ calls'[c].pc = "done"
              /\ calls'[c].result.code = "invalid-argument"
              /\ StoreUnchanged
        /\ (calls[c].pc = "deadline" /\ calls'[c].pc = "done") =>
              /\ calls'[c].result.code # "ok"
              /\ StoreUnchanged
      ]_vars

\* A request for week 19 was rejected while the user had a stored lineup and
\* usage counts.
C2_Witness ==
    \E c \in Calls :
        /\ calls[c].pc = "done"
        /\ calls[c].result.code = "invalid-argument"
        /\ calls[c].data.week = Num(MAX_NFL_WEEKS + 1)
        /\ weeklyLineups # EmptyCollection
        /\ usageCounts # EmptyCollection

----------------------------------------------------------------------------
(* C3: no usage counter ever exceeds 5.                                    *)
C3_UsageAtMostFive ==
    \A u \in DOMAIN usageCounts : usageCounts[u].count <= 5

----------------------------------------------------------------------------
(* C4: when an entity of the submitted picks has a usage count of 5 or     *)
(* more at the time of the transaction, the save is not accepted and the   *)
(* step of the call changes no lineup row and no counter, also not those   *)
(* of the other picks of the submission; the transaction function that     *)
(* reads such a count ends the call.                                       *)
C4_CapRejectsWholeSave ==
    [][\A c \in Calls :
        (/\ InTransaction(c)
         /\ StepOf(c)
         /\ \E u \in UsagePathsOf(c) : CountAt(usageCounts, u) >= 5) =>
            /\ ~AcceptedStep(c)
            /\ StoreUnchanged
            /\ calls[c].pc = "getAll" =>
                  /\ calls'[c].pc = "done"
                  /\ calls'[c].result.code \in {"failed-precondition", "internal"}
      ]_vars

----------------------------------------------------------------------------
(* C5: an accepted save raises the counter of each entity of its picks by  *)
(* exactly 1, in however many slots the entity appears.                    *)
C5_EachEntityPlusOne ==
    [][\A c \in Calls :
        AcceptedStep(c) =>
            \A u \in UsagePathsOf(c) :
                CountAt(usageCounts', u) = CountAt(usageCounts, u) + 1
      ]_vars

----------------------------------------------------------------------------
(* C6: with T the earliest kickoff of the week's schedule, the deadline    *)
(* check at second now rejects the save when now >= T and lets it go on to *)
(* the transaction when now < T (unless the read of the schedule fails).   *)
C6_DeadlineBoundary ==
    [][\A c \in Calls :
        (/\ calls[c].pc = "deadline"
         /\ StepOf(c)
         /\ HasKickoff(calls[c].data.week.n)) =>
            IF clock >= KickoffOf(calls[c].data.week.n)
            THEN /\ calls'[c].pc = "done"
                 /\ \/ calls'[c].result =
                         [code |-> "failed-precondition", message |-> "deadline has passed"]
                    \/ calls'[c].result.code = "internal"
            ELSE \/ calls'[c].pc = "transaction"
                 \/ calls'[c].pc = "done" /\ calls'[c].result.code = "internal"
      ]_vars

\* A save is rejected for the deadline in the kickoff second itself, after a
\* save that was accepted one second earlier.
C6_Witness ==
    \E c \in Calls :
        /\ calls[c].pc = "done"
        /\ calls[c].result.message = "deadline has passed"
        /\ HasKickoff(1)
        /\ clock = KickoffOf(1)
        /\ Exists(weeklyLineups, LineupPathOf(c))
        /\ weeklyLineups[LineupPathOf(c)].lastUpdated = KickoffOf(1) - 1

----------------------------------------------------------------------------
(* C7: no save commits its lineup row and counters at or after the         *)
(* earliest kickoff of its week.                                           *)
C7_NoCommitAfterKickoff ==
    [][\A c \in Calls :
        AcceptedStep(c) =>
            ~(/\ HasKickoff(calls[c].data.week.n)
              /\ clock >= KickoffOf(calls[c].data.week.n))
      ]_vars

----------------------------------------------------------------------------
(* C8: while the week has no schedule row, or a row with an empty list of  *)
(* games, the deadline check ends the save with an error at any time, and  *)
(* nothing is written.                                                     *)
C8_MissingScheduleFailsClosed ==
    [][\A c \in Calls :
        (/\ calls[c].pc = "deadline"
         /\ StepOf(c)
         /\ \/ ~Exists(nfl_schedules, scheduleDocId(calls[c].data.week.n))
            \/ nfl_schedules[scheduleDocId(calls[c].data.week.n)].games = <<>>) =>
            /\ calls'[c].pc = "done"
            /\ calls'[c].result.code \in {"not-found", "failed-precondition", "internal"}
            /\ StoreUnchanged
      ]_vars

\* A save was rejected after time 0 because the row of its week lists no game.
C8_Witness ==
    \E c \in Calls :
        /\ calls[c].pc = "done"
        /\ calls[c].result.message = "Cannot determine deadline"
        /\ clock > 0
        /\ Exists(nfl_schedules, scheduleDocId(1))
        /\ nfl_schedules[scheduleDocId(1)].games = <<>>
        /\ StoreIsEmpty

----------------------------------------------------------------------------
(* C9: after an accepted save the stored picks of its row are exactly the  *)
(* submitted picks.                                                        *)
C9_PicksReplaced ==
    [][\A c \in Calls :
        AcceptedStep(c) =>
            weeklyLineups'[LineupPathOf(c)].picks =
                lineupPicksWithTimestamp(calls[c].data.picks, calls[c].now)
      ]_vars

----------------------------------------------------------------------------
(* C10: a stored row is flagged complete exactly when its stored picks     *)
(* fill all 8 slots.                                                       *)
C10_CompleteIffEightSlots ==
    \A path \in DOMAIN weeklyLineups :
        weeklyLineups[path].isComplete <=> DOMAIN weeklyLineups[path].picks = SlotNames

----------------------------------------------------------------------------
(* Vocabulary of the properties of the scoring runs.                       *)

\* The user, league and week of the request call c holds.
UserOf(c) == calls[c].auth.s
LeagueOf(c) == calls[c].data.leagueId.s
WeekOf(c) == calls[c].data.week.n

\* The row of user u1 for week 1 of league L1, and the counter of an entity
\* for a user in a league.
RowU1 == lineupDocRef("u1", "L1", 1)
CounterOf(userId, leagueId, type, id) == usageDocRef(userId, leagueId, <<type, id>>)

\* The last scoring run has written the total of a lineup.
RunHasScored ==
    \/ run.pc = "running" /\ run.processedCount >= 1
    \/ run.pc = "done" /\ run.result.processedCount >= 1

----------------------------------------------------------------------------
(* C11: in the step in which a save is accepted, the totalPoints of its    *)
(* row becomes null, also when a scoring run had written a total to the    *)
(* row before.                                                             *)

C11_AcceptedSaveResetsTotal ==
    [][\A c \in Calls :
          AcceptedStep(c) => weeklyLineups'[LineupPathOf(c)].totalPoints = Null]_vars

\* A run has scored the row of u1, and the save accepted after it has left
\* the row without a total.
C11_Witness ==
    /\ RunHasScored
    /\ calls[1].pc = "done"
    /\ calls[1].result.code = "ok"
    /\ Exists(weeklyLineups, RowU1)
    /\ weeklyLineups[RowU1].totalPoints = Null

----------------------------------------------------------------------------
(* C12: no step lowers the count of a usage counter or removes a usage     *)
(* counter: not an accepted or a rejected save, not a save that replaces   *)
(* the entity of a position, not a step of a scoring run.                  *)

C12_UsageNeverDecreases ==
    [][\A path \in DOMAIN usageCounts :
          /\ Exists(usageCounts', path)
          /\ usageCounts'[path].count >= usageCounts[path].count]_vars

\* The accepted save of P2 as quarterback has replaced P1, whose counter
\* still holds its uses, and a scoring run has written a total.
C12_Witness ==
    /\ RunHasScored
    /\ calls[1].pc = "done"
    /\ calls[1].result.code = "ok"
    /\ calls[1].data.picks = picksQB2
    /\ CountAt(usageCounts, CounterOf("u1", "L1", "player", "P1")) >= 1
    /\ weeklyLineups[RowU1].picks["QB"].id = "P2"

----------------------------------------------------------------------------
(* C13: usage is counted per user and per league-season. The step in which *)
(* a save of user A in league L is accepted changes no counter of another  *)
(* user and no counter of A in another league, and a save is rejected for  *)
(* the usage limit only when a counter of its own user and league for one  *)
(* of its picks has reached the cap.                                       *)

\* The counter at path belongs to the user and the league-season of call c.
OwnCounter(c, path) ==
    /\ path[1] = UserOf(c)
    /\ path[2] = <<LeagueOf(c), currentSeason>>

\* This step rejects call c for the usage limit.
UsageLimitStep(c) ==
    /\ calls[c].pc = "getAll"
    /\ calls'[c].pc = "done"
    /\ calls'[c].result.message = "Usage limit reached"

C13_UsagePerUserAndLeague ==
    [][\A c \in Calls :
          /\ AcceptedStep(c) =>
                \A path \in DOMAIN usageCounts' :
                    OwnCounter(c, path) \/ CountAt(usageCounts', path) = CountAt(usageCounts, path)
          /\ UsageLimitStep(c) =>
                \E path \in DOMAIN usageCounts :
                    /\ OwnCounter(c, path)
                    /\ path[3] \in Range(entityIdsToUpdate(calls[c].data.picks))
                    /\ usageCounts[path].count >= MAX_USAGE_COUNT]_vars

\* User u1 has used player P1 five times in league L1 and is rejected for
\* the limit, and the save of P1 by user u2 in league L1 is accepted.
C13_Witness ==
    /\ CountAt(usageCounts, CounterOf("u1", "L1", "player", "P1")) = MAX_USAGE_COUNT
    /\ CountAt(usageCounts, CounterOf("u1", "L2", "player", "P1")) = 1
    /\ calls[1].pc = "done"
    /\ calls[1].result.message = "Usage limit reached"
    /\ UserOf(1) = "u1" /\ LeagueOf(1) = "L1"
    /\ calls[2].pc = "done"
    /\ calls[2].result.code = "ok"
    /\ UserOf(2) = "u2"

----------------------------------------------------------------------------
(* C14: two transactions in flight that are of different users, or of the  *)
(* same user for two different weeks, read and write disjoint sets of      *)
(* documents, and the commit of one never makes the reads of the other     *)
(* stale, so that it would be retried. As amended: this holds for          *)
(* different users, and for the same user and different weeks when the     *)
(* leagues differ or no entity is picked by both; in the same league with  *)
(* a common entity the two share the usage counter of that entity.         *)

\* The documents the transaction of call c reads or writes.
RecordsOf(c) ==
    {<<"usageCounts", path>> : path \in UsagePathsOf(c)}
        \cup {<<"weeklyLineups", LineupPathOf(c)>>}

\* The commit of d in this step leaves the reads of c as they were.
CommitLeavesReads(c, d) ==
    (AcceptedStep(d) /\ calls[c].pc = "commit" /\ ReadsCurrent(c)) => ReadsCurrent(c)'

\* The two calls have an entity in common.
CommonEntity(c, d) ==
    Range(entityIdsToUpdate(calls[c].data.picks))
        \cap Range(entityIdsToUpdate(calls[d].data.picks)) # {}

C14_DifferentUsersOrWeeksDisjoint ==
    [][\A c, d \in Calls :
          (/\ c # d
           /\ InTransaction(c) /\ InTransaction(d)
           /\ UserOf(c) # UserOf(d) \/ WeekOf(c) # WeekOf(d))
          => /\ RecordsOf(c) \cap RecordsOf(d) = {}
             /\ CommitLeavesReads(c, d)]_vars

C14_DisjointUnlessSharedCounter ==
    [][\A c, d \in Calls :
          (/\ c # d
           /\ InTransaction(c) /\ InTransaction(d)
           /\ \/ UserOf(c) # UserOf(d)
              \/ /\ WeekOf(c) # WeekOf(d)
                 /\ LeagueOf(c) # LeagueOf(d) \/ ~CommonEntity(c, d))
          => /\ RecordsOf(c) \cap RecordsOf(d) = {}
             /\ CommitLeavesReads(c, d)]_vars

\* After an accepted save of player P1 by u2 in league L1, the transactions
\* of u1 for week 1 and for week 2 of league L1 are both about to commit:
\* the first picks P1 and the second P2, they have no document in common
\* and the reads of both are current.
C14_Witness ==
    /\ CountAt(usageCounts, CounterOf("u2", "L1", "player", "P1")) = 1
    /\ calls[1].pc = "commit" /\ calls[2].pc = "commit"
    /\ UserOf(1) = "u1" /\ UserOf(2) = "u1"
    /\ LeagueOf(1) = "L1" /\ LeagueOf(2) = "L1"
    /\ WeekOf(1) = 1 /\ WeekOf(2) = 2
    /\ ~CommonEntity(1, 2)
    /\ RecordsOf(1) \cap RecordsOf(2) = {}
    /\ ReadsCurrent(1) /\ ReadsCurrent(2)

----------------------------------------------------------------------------
(* C15: every precondition failure of a save is reported with its own      *)
(* reason: a save for a week without a schedule row is rejected with       *)
(* not-found, a save after the deadline and a save at the usage limit with *)
(* failed-precondition, none of them with internal.                        *)

\* This step ends the deadline check of call c with an error.
DeadlineRejectStep(c) ==
    /\ calls[c].pc = "deadline"
    /\ calls'[c].pc = "done"

C15_SpecificReasons ==
    [][\A c \in Calls :
          /\ (DeadlineRejectStep(c) /\ ~Exists(nfl_schedules, scheduleDocId(WeekOf(c))))
                => calls'[c].result.code = "not-found"
          /\ (DeadlineRejectStep(c) /\ Exists(nfl_schedules, scheduleDocId(WeekOf(c))))
                => calls'[c].result.code = "failed-precondition"
          /\ UsageLimitStep(c) => calls'[c].result.code = "failed-precondition"]_vars

----------------------------------------------------------------------------
(* The vocabulary of the claims about scoring runs.                        *)

\* The step in which the run writes the total of lineup i to its row.
ScoredStep(i) ==
    /\ run.pc = "running"
    /\ i \in DOMAIN run.tasks
    /\ run.tasks[i].st = "update"
    /\ run'.pc = "running"
    /\ run'.tasks[i].outcome = "scored"

\* The stored GameStat rows of an entity for the week and season of the run.
RowsOfPick(pick) ==
    {path \in DOMAIN gamestats :
        /\ path[1] = (IF pick.type = "player" THEN "players" ELSE "teams")
        /\ path[2] = pick.id
        /\ gamestats[path].season = Num(run.season)
        /\ gamestats[path].week = Num(run.week)}

\* The field of a GameStat row that holds the value of a slot.
SlotField(position, pick) ==
    IF pick.type = "player" THEN "fantasyPoints"
    ELSE CASE position = "PassingOffense" -> "fantasyPointsPassing"
           [] position = "RushingOffense" -> "fantasyPointsRushing"
           [] position = "Defense" -> "fantasyPointsDefense"
           [] position = "SpecialTeams" -> "fantasyPointsSpecialTeams"
           [] OTHER -> "none"

\* The stored value of a slot, in thousandths; 0 without a row.
StoredValue(position, pick) ==
    IF RowsOfPick(pick) = {} THEN 0
    ELSE LET row == gamestats[CHOOSE path \in RowsOfPick(pick) : TRUE]
         IN  IF SlotField(position, pick) \in DOMAIN row
             THEN row[SlotField(position, pick)].milli ELSE 0

\* The slots of a lineup whose entity has no stored row for the week.
SlotsWithoutRow(picks) == {position \in DOMAIN picks : RowsOfPick(picks[position]) = {}}

\* The sum of the numbers f[x] over the x of S.
RECURSIVE SumOver(_, _)
SumOver(S, f) ==
    IF S = {} THEN 0
    ELSE LET x == CHOOSE y \in S : TRUE
         IN  f[x] + SumOver(S \ {x}, f)

\* The sum of the stored values of a set of slots of a lineup.
StoredSum(picks, slots) ==
    SumOver(slots, [position \in slots |-> StoredValue(position, picks[position])])

\* total is sum rounded to the nearest cent (to the upper one in the middle).
NearestCent(total, sum) == total % 10 = 0 /\ sum - 5 < total /\ total <= sum + 5

----------------------------------------------------------------------------
(* C16: whenever a scoring run writes the total of a lineup, the written   *)
(* totalPoints is the sum, over the picks the run read, of the stored      *)
(* value of each slot (a player's fantasyPoints, a team's field of the     *)
(* slot), rounded to the nearest cent.                                     *)

C16_TotalIsRoundedSumOfSlots ==
    [][\A i \in DOMAIN run.tasks :
          ScoredStep(i) =>
              LET picks == run.docs[i].data.picks
                  written == weeklyLineups'[run.docs[i].ref].totalPoints
              IN  /\ written.t = "number"
                  /\ NearestCent(written.milli, StoredSum(picks, DOMAIN picks))]_vars

----------------------------------------------------------------------------
(* C17: when a pick of a lineup has no stored GameStat row for the week,   *)
(* a lookup of its slot that raises no error counts 0 and sets no error    *)
(* flag, and when the lineup is written its total is the rounded sum of    *)
(* the slots that have a row and the lineup is counted as processed, not   *)
(* as an error.                                                            *)

C17_MissingRowCountsZero ==
    [][\A i \in DOMAIN run.tasks :
          LET picks == run.docs[i].data.picks
              missing == SlotsWithoutRow(picks)
          IN  /\ \A position \in missing :
                     (/\ run.pc = "running" /\ run'.pc = "running"
                      /\ run.tasks[i].results[position].st = "pending"
                      /\ run'.tasks[i].results[position].st = "resolved")
                     => /\ run'.tasks[i].results[position].points = 0
                        /\ run'.tasks[i].lineupProcessingError = run.tasks[i].lineupProcessingError
              /\ (ScoredStep(i) /\ missing # {})
                     => /\ weeklyLineups'[run.docs[i].ref].totalPoints.t = "number"
                        /\ NearestCent(weeklyLineups'[run.docs[i].ref].totalPoints.milli,
                                       StoredSum(picks, DOMAIN picks \ missing))
                        /\ run'.processedCount = run.processedCount + 1
                        /\ run'.errorCount = run.errorCount]_vars

\* The quarterback of u1 has no row for week 1: the lineup is scored with
\* the 13 points of its defense and counted as processed.
C17_Witness ==
    /\ run.pc = "done"
    /\ run.week = 1
    /\ run.result.processedCount = 2
    /\ run.result.errorCount = 0
    /\ ~(\E path \in DOMAIN gamestats :
            path[1] = "players" /\ path[2] = "P1" /\ gamestats[path].week = Num(1))
    /\ weeklyLineups[RowU1].totalPoints = Milli(13000)

----------------------------------------------------------------------------
(* C18: a run returns its summary only when every lineup it started is     *)
(* settled; the failure of one lineup leaves the other lineups' outcomes   *)
(* to their own lookups and writes: at the return every lineup with picks  *)
(* is scored or failed, a scored one has its total in its row, and the     *)
(* summary counts exactly the scored and the failed lineups.               *)

----------------------------------------------------------------------------
(* C19: a second run with the same arguments, with no save and no commit  *)
(* of the stats sync since the first run was called, leaves every         *)
(* lineup's totalPoints as it was after the first run.                     *)

\* The run repeats the run before it and the stats sync has committed
\* nothing since that run was called.
RerunOverUnchangedStats ==
    /\ run.rerun
    /\ run.first.commits = boxScore.successCount

C19_RerunLeavesTotals ==
    [][\A i \in DOMAIN run.tasks :
          (RerunOverUnchangedStats /\ ScoredStep(i)) =>
              weeklyLineups'[run.docs[i].ref].totalPoints =
                  run.docs[i].data.totalPoints]_vars

\* C19 as it holds: a second run with the same arguments, with no save and
\* no commit of the stats sync since the first run was called, leaves the
\* totalPoints of every lineup that the first run scored as it was after
\* the first run.
C19_RerunLeavesScoredTotals ==
    [][\A i \in DOMAIN run.tasks :
          (/\ RerunOverUnchangedStats
           /\ ScoredStep(i)
           /\ run.docs[i].ref \in run.first.scored) =>
              weeklyLineups'[run.docs[i].ref].totalPoints =
                  run.docs[i].data.totalPoints]_vars

\* The second run has written the same total to a lineup that the first
\* run scored, and another total to a lineup on which the first run failed
\* and which held the total of a run before the stats were revised.
C19_Witness ==
    /\ run.pc = "running"
    /\ RerunOverUnchangedStats
    /\ \E i, j \in DOMAIN run.tasks :
           /\ run.tasks[i].outcome = "scored"
           /\ run.docs[i].ref \in run.first.scored
           /\ weeklyLineups[run.docs[i].ref].totalPoints = run.docs[i].data.totalPoints
           /\ run.tasks[j].outcome = "scored"
           /\ run.docs[j].ref \notin run.first.scored
           /\ run.docs[j].data.totalPoints # Null
           /\ weeklyLineups[run.docs[j].ref].totalPoints # run.docs[j].data.totalPoints

----------------------------------------------------------------------------
(* C20: for the team defense data that ingestion builds (ptsAllowed,       *)
(* sacks, defInt, fumRec, safeties, defTD) the defense points stored with  *)
(* it are tier(ptsAllowed) + 2 * (defInt + fumRec) + sacks + 2 * safeties  *)
(* + 6 * defTD, with tier 10 for 0 points allowed, 6 for 2..9, 3 for       *)
(* 10..20 and 0 otherwise, to the nearest cent.                            *)

\* The tier of the points allowed, in thousandths.
TierOfPointsAllowed(ptsAllowed) ==
    CASE ptsAllowed = 0 -> 10000
      [] ptsAllowed \in 2 .. 9 -> 6000
      [] ptsAllowed \in 10 .. 20 -> 3000
      [] OTHER -> 0

C20_DefensePointsCountTurnovers ==
    boxScore.pc = "returned" =>
        \A path \in DOMAIN gamestats :
            path[1] = "teams" =>
                LET d == Field(gamestats[path].aggregatedStatsForCalc, "teamDefData").o
                IN  NearestCent(gamestats[path].fantasyPointsDefense.milli,
                        TierOfPointsAllowed(d.ptsAllowed.n)
                        + 2000 * (d.defInt.n + d.fumRec.n)
                        + d.sacks.milli
                        + 2000 * d.safeties.n
                        + 6000 * d.defTD.n)

----------------------------------------------------------------------------
(* C21: the special-teams points stored with a team's statistics are       *)
(* 1 * xpMade + 3 * fgMade + 6 * (kickReturnTD + puntReturnTD +            *)
(* fumbleReturnTD) + 2 * xpReturn of the special-teams data that ingestion *)
(* builds, so every fumble-return touchdown adds 6 points.                 *)

C21_SpecialTeamsCountFumbleReturns ==
    boxScore.pc = "returned" =>
        \A path \in DOMAIN gamestats :
            path[1] = "teams" =>
                LET st == Field(gamestats[path].aggregatedStatsForCalc, "specialTeamsStats").o
                IN  gamestats[path].fantasyPointsSpecialTeams.milli =
                        1000 * st.xpMade.n
                        + 3000 * st.fgMade.n
                        + 6000 * (st.kickReturnTD.n + st.puntReturnTD.n + st.fumbleReturnTD.n)
                        + 2000 * st.xpReturn.n

----------------------------------------------------------------------------
(* C22: each aggregate of a team equals the sum of the statistic over      *)
(* exactly the players of the map whose recorded teamID is the team;       *)
(* players of another team, without teamID or undefined add nothing, and   *)
(* the iteration order of the map does not matter.                         *)

\* The players of the box score being aggregated that are recorded for the
\* team.
PlayersOfTeam ==
    {p \in DOMAIN boxScore.playerStats.o :
        Field(boxScore.playerStats.o[p], "teamID") = boxScore.teamId}

\* The whole-number and the decimal reading of a statistic of a player, 0
\* when the player has none.
CountOf(p, category, name) == safeParseInt(StatOf(boxScore.playerStats, p, category, name))
YardsOf(p, category, name) ==
    safeParseFloat(StatOf(boxScore.playerStats, p, category, name)).milli

TeamCount(category, name) ==
    Num(SumOver(PlayersOfTeam, [p \in PlayersOfTeam |-> CountOf(p, category, name)]))
TeamYards(category, name) ==
    Milli(SumOver(PlayersOfTeam, [p \in PlayersOfTeam |-> YardsOf(p, category, name)]))

C22_AggregatesSumOwnPlayers ==
    boxScore.pc = "aggregated" =>
        LET aggPassing == boxScore.aggregates.aggPassing.o
            aggRushing == boxScore.aggregates.aggRushing.o
            aggKicking == boxScore.aggregates.aggKicking.o
            aggReturns == boxScore.aggregates.aggReturns.o
        IN  /\ aggPassing.totalPassingYards = TeamYards("Passing", "passYds")
            /\ aggPassing.totalPassingTDs = TeamCount("Passing", "passTD")
            /\ aggPassing.totalInterceptionsThrown = TeamCount("Passing", "int")
            /\ aggRushing.totalRushingYards = TeamYards("Rushing", "rushYds")
            /\ aggRushing.totalRushingTDs = TeamCount("Rushing", "rushTD")
            /\ aggKicking.totalExtraPointsMade = TeamCount("Kicking", "xpMade")
            /\ aggKicking.totalFieldGoalsMade = TeamCount("Kicking", "fgMade")
            /\ aggReturns.totalKickReturnTDs = TeamCount("Kicking", "kickReturnTD")
            /\ aggReturns.totalPuntReturnTDs = TeamCount("Punting", "puntReturnTD")
            /\ aggReturns.totalFumbleReturnTDs = TeamCount("Defense", "fumRetTD")

----------------------------------------------------------------------------
(* C23: in every league, after any interleaving of the five league         *)
(* functions, the uids of memberUids are exactly the uids of the members   *)
(* records, no uid occurs twice in members, and adminUid is a member; and  *)
(* a join whose caller is a member of the league when the join ends is     *)
(* rejected and leaves the leagues unchanged: with already-exists, unless  *)
(* Firestore has rejected a call of the join, which ends it with internal. *)

\* The uids of the members records of a league.
MemberRecordUids(league) == {league.members[i].uid : i \in DOMAIN league.members}

LeagueWellFormed(league) ==
    /\ Range(league.memberUids) = MemberRecordUids(league)
    /\ \A i, j \in DOMAIN league.members :
           league.members[i].uid = league.members[j].uid => i = j
    /\ league.adminUid \in Range(league.memberUids)

\* The join of slot c ends in this step.
JoinEnds(c) ==
    /\ leagueCalls[c].pc \in {"transaction", "commit"}
    /\ leagueCalls'[c].pc = "done"

\* The caller of the join of slot c is a member of the league it joins.
CallerIsMember(c) ==
    /\ Exists(leagues, LeagueIdOf(leagueCalls[c].leagueRef))
    /\ leagueCalls[c].auth.s \in Range(leagues[LeagueIdOf(leagueCalls[c].leagueRef)].memberUids)

C23_MembersAndMemberUidsAgree ==
    /\ [](\A id \in DOMAIN leagues : LeagueWellFormed(leagues[id]))
    /\ [][\A c \in LeagueCalls :
             (JoinEnds(c) /\ CallerIsMember(c)) =>
                 /\ leagueCalls'[c].result.code # "internal"
                        => leagueCalls'[c].result.code = "already-exists"
                 /\ leagues' = leagues]_vars

\* u2 has joined the league of u1 and a further join of u2 has been
\* rejected.
C23_Witness ==
    /\ \E id \in DOMAIN leagues :
           /\ leagues[id].adminUid = "u1"
           /\ leagues[id].memberUids = <<"u1", "u2">>
           /\ Len(leagues[id].members) = 2
    /\ \E c \in LeagueCalls :
           leagueCalls[c].pc = "done" /\ leagueCalls[c].result.code = "already-exists"

----------------------------------------------------------------------------
(* C24: while the schedule row of the week lists games of which none has   *)
(* a usable kickoff (every gameTimeEpoch missing, unreadable or not        *)
(* positive), the deadline check ends the save with an error at any time,  *)
(* and nothing is written.                                                 *)

\* The schedule row of the week lists games, none with a usable kickoff.
NoUsableKickoff(week) ==
    /\ Exists(nfl_schedules, scheduleDocId(week))
    /\ nfl_schedules[scheduleDocId(week)].games # <<>>
    /\ KickoffEpochs(nfl_schedules[scheduleDocId(week)].games) = {}

C24_UnusableKickoffsFailClosed ==
    [][\A c \in Calls :
        (/\ calls[c].pc = "deadline"
         /\ StepOf(c)
         /\ NoUsableKickoff(calls[c].data.week.n)) =>
            /\ calls'[c].pc = "done"
            /\ calls'[c].result.code \in {"not-found", "failed-precondition", "internal"}
            /\ StoreUnchanged
      ]_vars

----------------------------------------------------------------------------
(* C25: under every interleaving of saves and scoring runs, a lineup row   *)
(* whose totalPoints is not null holds the nearest cent of the sum of the  *)
(* stored values of the picks it holds now; a total computed from picks    *)
(* read before a resubmission is never written to the resubmitted row.     *)

\* The stored value of a slot of a lineup row for the row's season and
\* week, in thousandths; 0 without a GameStat row.
ValueForRow(row, position) ==
    LET pick == row.picks[position]
        found == {path \in DOMAIN gamestats :
                    /\ path[1] = (IF pick.type = "player" THEN "players" ELSE "teams")
                    /\ path[2] = pick.id
                    /\ gamestats[path].season = Num(row.season)
                    /\ gamestats[path].week = Num(row.week)}
    IN  IF found = {} THEN 0
        ELSE LET stat == gamestats[CHOOSE path \in found : TRUE]
             IN  IF SlotField(position, pick) \in DOMAIN stat
                 THEN stat[SlotField(position, pick)].milli ELSE 0

SumForRow(row) ==
    SumOver(DOMAIN row.picks, [position \in DOMAIN row.picks |-> ValueForRow(row, position)])

C25_TotalMatchesStoredPicks ==
    \A path \in DOMAIN weeklyLineups :
        weeklyLineups[path].totalPoints # Null =>
            NearestCent(weeklyLineups[path].totalPoints.milli, SumForRow(weeklyLineups[path]))

----------------------------------------------------------------------------
(* C26: the lookups of the slots of a lineup return in any order, and a    *)
(* run changes the row of a lineup only when every lookup of the lineup    *)
(* has returned and none of them has failed; a lineup with a failed lookup *)
(* is settled without a write.                                             *)

C26_WriteAfterAllLookups ==
    [][\A i \in DOMAIN run.docs :
          /\ weeklyLineups'[run.docs[i].ref] # weeklyLineups[run.docs[i].ref] =>
                /\ i \in DOMAIN run.tasks
                /\ \A position \in DOMAIN run.docs[i].data.picks :
                       run.tasks[i].results[position].st = "resolved"
          /\ (/\ i \in DOMAIN run.tasks
              /\ run.tasks[i].st # "settled"
              /\ run'.pc = "running"
              /\ run'.tasks[i].st = "settled"
              /\ \E position \in DOMAIN run.tasks[i].results :
                     run.tasks[i].results[position].st = "failed") =>
                /\ run'.tasks[i].outcome = "failed"
                /\ weeklyLineups' = weeklyLineups]_vars

\* Every lookup of the lineup of u2 has returned and its total is written,
\* while the lineup of u1, one of whose lookups has failed, is settled
\* without a total.
C26_Witness ==
    /\ run.pc = "running"
    /\ \E i, j \in DOMAIN run.tasks :
           /\ run.docs[i].ref = lineupDocRef("u2", "L1", 1)
           /\ run.tasks[i].outcome = "scored"
           /\ weeklyLineups[run.docs[i].ref].totalPoints # Null
           /\ run.docs[j].ref = RowU1
           /\ run.tasks[j].outcome = "failed"
           /\ run.tasks[j].lineupProcessingError
           /\ weeklyLineups[RowU1].totalPoints = Null

----------------------------------------------------------------------------
(* C27: at every moment of a run at most batchSize lineups are started and *)
(* not settled, and a step of the run starts lineups only when every       *)
(* lineup started before is settled.                                       *)

Unsettled(r) == {i \in DOMAIN r.tasks : r.tasks[i].st # "settled"}

C27_AtMostOneBatchInFlight ==
    /\ [](run.pc = "running" => Cardinality(Unsettled(run)) <= batchSize)
    /\ [][(run.pc = "running" /\ run'.pc = "running" /\ Len(run'.tasks) > Len(run.tasks)) =>
             /\ Unsettled(run) = {}
             /\ Len(run.tasks) % batchSize = 0
             /\ Len(run'.tasks) <= Len(run.tasks) + batchSize]_vars

\* The first batch of batchSize lineups has settled and a lineup of the
\* second batch waits for its lookup.
C27_Witness ==
    /\ run.pc = "running"
    /\ Len(run.docs) > batchSize
    /\ Len(run.tasks) > batchSize
    /\ \A i \in 1 .. batchSize : run.tasks[i].st = "settled"
    /\ run.tasks[batchSize + 1].st = "lookups"

----------------------------------------------------------------------------
(* C28: a step of a scoring run leaves the usage counters, the GameStat    *)
(* rows and the set of lineup rows as they are, and changes of a lineup    *)
(* row nothing but totalPoints and lastUpdated, and these only in a row of *)
(* the season and week of the run, and of its league when one is given.    *)

InFilter(row, r) ==
    /\ row.season = r.season
    /\ row.week = r.week
    /\ Truthy(r.request.leagueId) =>
           (r.request.leagueId.t = "string" /\ row.leagueId = r.request.leagueId.s)

C28_ScoringWritesOnlyTotals ==
    [][/\ usageCounts' = usageCounts
       /\ gamestats' = gamestats
       /\ DOMAIN weeklyLineups' = DOMAIN weeklyLineups
       /\ \A path \in DOMAIN weeklyLineups :
              /\ [weeklyLineups'[path] EXCEPT !.totalPoints = Null, !.lastUpdated = 0] =
                 [weeklyLineups[path] EXCEPT !.totalPoints = Null, !.lastUpdated = 0]
              /\ weeklyLineups'[path] # weeklyLineups[path] =>
                     run.pc = "running" /\ InFilter(weeklyLineups[path], run)]_vars

\* A run for week 1 of league L1 has returned with one lineup scored; the
\* lineup of league L1 holds a total and those of league L2 and of week 2
\* hold none.
C28_Witness ==
    /\ run.pc = "done"
    /\ run.request = ScoreRequest(Num(1), Undefined, Str("L1"))
    /\ run.result.processedCount = 1
    /\ weeklyLineups[lineupDocRef("u1", "L1", 1)].totalPoints # Null
    /\ weeklyLineups[lineupDocRef("u1", "L2", 1)].totalPoints = Null
    /\ weeklyLineups[lineupDocRef("u1", "L1", 2)].totalPoints = Null

----------------------------------------------------------------------------
(* C29: during a run processedCount is the number of lineups whose total   *)
(* was written and errorCount the number of lineups settled with an error, *)
(* no lineup being in both; when the run returns the two counts add up to  *)
(* the number of stored lineups with a pick that match the filter of the   *)
(* run, and success is returned exactly when errorCount is 0.              *)

TasksWith(outcome) == {i \in DOMAIN run.tasks : run.tasks[i].outcome = outcome}

MatchedWithPicks ==
    {path \in DOMAIN weeklyLineups :
        InFilter(weeklyLineups[path], run) /\ DOMAIN weeklyLineups[path].picks # {}}

C29_EveryLineupCountedOnce ==
    /\ run.pc = "running" =>
          /\ run.processedCount = Cardinality(TasksWith("scored"))
          /\ run.errorCount = Cardinality(TasksWith("failed"))
          /\ \A i \in TasksWith("scored") :
                 weeklyLineups[run.docs[i].ref].totalPoints # Null
          /\ {run.docs[i].ref : i \in DOMAIN run.docs} = MatchedWithPicks
          /\ Len(run.docs) = Cardinality(MatchedWithPicks)
    /\ (run.pc = "done" /\ run.result.message = "Score calculation finished") =>
          /\ run.result.processedCount + run.result.errorCount =
                 Cardinality(MatchedWithPicks)
          /\ run.result.success <=> run.result.errorCount = 0

\* A run for week 1 of all leagues has returned: of the two lineups of the
\* week one was scored and one failed, and the run reports no success.
C29_Witness ==
    /\ run.pc = "done"
    /\ run.request = ScoreRequest(Num(1), Undefined, Undefined)
    /\ Cardinality(MatchedWithPicks) = 2
    /\ run.result.processedCount = 1
    /\ run.result.errorCount = 1
    /\ ~run.result.success

----------------------------------------------------------------------------
(* C30: every stored lineup has a player under each of QB, RB, WR and TE   *)
(* and a team under each of PassingOffense, RushingOffense, Defense and    *)
(* SpecialTeams.                                                           *)

PlayerSlots == {"QB", "RB", "WR", "TE"}

C30_StoredPicksAreKindConsistent ==
    \A path \in DOMAIN weeklyLineups :
        \A position \in DOMAIN weeklyLineups[path].picks :
            weeklyLineups[path].picks[position].type =
                IF position \in PlayerSlots THEN "player" ELSE "team"
====
